-------------------------- MODULE InMemQueueProofs --------------------------
(***************************************************************************)
(* The in-memory queue implements TaskQueue, for every set of tasks,       *)
(* priorities, consumers and readers and every bound on the entries.       *)
(***************************************************************************)
EXTENDS InMemQueue, SequenceTheorems, TLAPS

\* A consumer calls Pop when it is done with the previous task.
FreeHands == \A c \in Consumers : popping[c] # "idle" => held[c] = Nil

IInv == TypeOK /\ PassOwnsDelayed /\ FreeHands

(***************************************************************************)
(* Sequences: what a pass does to the entries that wait.                   *)
(***************************************************************************)

\* A pass that has not looked at anything has kept everything.
LEMMA WholeRange ==
    ASSUME NEW S, NEW d \in Seq(S)
    PROVE  <<>> \o SubSeq(d, 1, Len(d)) = d
  OBVIOUS

\* A pass that looked at everything leaves what it kept.
LEMMA EmptyRange ==
    ASSUME NEW S, NEW d \in Seq(S), NEW rem \in Seq(S)
    PROVE  rem \o SubSeq(d, Len(d) + 1, Len(d)) = rem
  OBVIOUS

\* What a pass kept, followed by the entries from i on.
LEMMA KeptAndRest ==
    ASSUME NEW S, NEW d \in Seq(S), NEW rem \in Seq(S), NEW i \in 1 .. Len(d) + 1
    PROVE  LET w == rem \o SubSeq(d, i, Len(d))
           IN  /\ w \in Seq(S)
               /\ Len(w) = Len(rem) + Len(d) - i + 1
               /\ \A j \in 1 .. Len(w) :
                     w[j] = IF j <= Len(rem) THEN rem[j] ELSE d[j - Len(rem) + i - 1]
  <1> DEFINE rest == SubSeq(d, i, Len(d))
  <1>1. /\ rest \in Seq(S)
        /\ Len(rest) = Len(d) - i + 1
        /\ \A j \in 1 .. Len(rest) : rest[j] = d[i + j - 1]
    OBVIOUS
  <1> HIDE DEF rest
  <1>2. /\ rem \o rest \in Seq(S)
        /\ Len(rem \o rest) = Len(rem) + Len(rest)
        /\ \A j \in 1 .. Len(rem) + Len(rest) :
              (rem \o rest)[j] = IF j <= Len(rem) THEN rem[j] ELSE rest[j - Len(rem)]
    BY <1>1, ConcatProperties
  <1>3. \A j \in 1 .. Len(rem) + Len(rest) : j > Len(rem) =>
           rest[j - Len(rem)] = d[j - Len(rem) + i - 1]
    BY <1>1
  <1>4. Len(rem \o rest) = Len(rem) + Len(d) - i + 1
    BY <1>1, <1>2
  <1> QED BY <1>2, <1>3, <1>4 DEF rest

\* An entry that is kept changes hands and stays in its place.
LEMMA KeepEntry ==
    ASSUME NEW S, NEW d \in Seq(S), NEW rem \in Seq(S), NEW i \in 1 .. Len(d)
    PROVE  Append(rem, d[i]) \o SubSeq(d, i + 1, Len(d)) = rem \o SubSeq(d, i, Len(d))
  <1> DEFINE ext == Append(rem, d[i])
             v == ext \o SubSeq(d, i + 1, Len(d))
             w == rem \o SubSeq(d, i, Len(d))
  <1>1. /\ ext \in Seq(S)
        /\ Len(ext) = Len(rem) + 1
        /\ \A j \in 1 .. Len(rem) : ext[j] = rem[j]
        /\ ext[Len(rem) + 1] = d[i]
    OBVIOUS
  <1> HIDE DEF ext
  <1>2. /\ v \in Seq(S)
        /\ Len(v) = Len(ext) + Len(d) - (i + 1) + 1
        /\ \A j \in 1 .. Len(v) :
              v[j] = IF j <= Len(ext) THEN ext[j] ELSE d[j - Len(ext) + (i + 1) - 1]
    <2>1. i + 1 \in 1 .. Len(d) + 1
      OBVIOUS
    <2>2. ASSUME NEW e \in Seq(S), NEW m \in 1 .. Len(d) + 1
          PROVE  LET u == e \o SubSeq(d, m, Len(d))
                 IN  /\ u \in Seq(S)
                     /\ Len(u) = Len(e) + Len(d) - m + 1
                     /\ \A j \in 1 .. Len(u) :
                           u[j] = IF j <= Len(e) THEN e[j] ELSE d[j - Len(e) + m - 1]
      BY KeptAndRest, SMTT(60)
    <2> QED BY <1>1, <2>1, <2>2, Zenon
  <1>3. /\ w \in Seq(S)
        /\ Len(w) = Len(rem) + Len(d) - i + 1
        /\ \A j \in 1 .. Len(w) :
              w[j] = IF j <= Len(rem) THEN rem[j] ELSE d[j - Len(rem) + i - 1]
    <2>1. i \in 1 .. Len(d) + 1
      OBVIOUS
    <2> QED BY <2>1, KeptAndRest
  <1> HIDE DEF v, w
  <1>4. Len(v) = Len(w)
    BY <1>1, <1>2, <1>3
  <1>5. ASSUME NEW j \in 1 .. Len(v)
        PROVE  v[j] = w[j]
    BY <1>1, <1>2, <1>3, <1>4
  <1>6. v = w
    BY <1>2, <1>3, <1>4, <1>5, SeqEqual
  <1> QED BY <1>6 DEF v, w, ext

\* An entry that is moved leaves the others in order.
LEMMA MoveEntry ==
    ASSUME NEW S, NEW d \in Seq(S), NEW rem \in Seq(S), NEW i \in 1 .. Len(d)
    PROVE  LET w == rem \o SubSeq(d, i, Len(d))
           IN  /\ Len(rem) + 1 \in DOMAIN w
               /\ w[Len(rem) + 1] = d[i]
               /\ RemoveAt(w, Len(rem) + 1) = rem \o SubSeq(d, i + 1, Len(d))
  <1> DEFINE w == rem \o SubSeq(d, i, Len(d))
             k == Len(rem) + 1
  <1>1. /\ w \in Seq(S)
        /\ Len(w) = Len(rem) + Len(d) - i + 1
        /\ \A j \in 1 .. Len(w) :
              w[j] = IF j <= Len(rem) THEN rem[j] ELSE d[j - Len(rem) + i - 1]
    <2>1. i \in 1 .. Len(d) + 1
      OBVIOUS
    <2> QED BY <2>1, KeptAndRest
  <1> HIDE DEF w
  <1>2. k \in DOMAIN w /\ w[k] = d[i]
    <2>1. k \in 1 .. Len(w) /\ ~(k <= Len(rem)) /\ k - Len(rem) + i - 1 = i
      BY <1>1
    <2>2. w[k] = d[k - Len(rem) + i - 1]
      BY <1>1, <2>1, Zenon
    <2> QED BY <1>1, <2>1, <2>2
  <1>3. SubSeq(w, 1, k - 1) = rem
    <2>1. /\ SubSeq(w, 1, k - 1) \in Seq(S)
          /\ Len(SubSeq(w, 1, k - 1)) = Len(rem)
          /\ \A j \in 1 .. Len(rem) : SubSeq(w, 1, k - 1)[j] = w[j]
      BY <1>1
    <2>2. ASSUME NEW j \in 1 .. Len(rem)
          PROVE  SubSeq(w, 1, k - 1)[j] = rem[j]
      <3>1. j \in 1 .. Len(w) /\ j <= Len(rem)
        BY <1>1
      <3> QED BY <1>1, <2>1, <3>1, Zenon
    <2> QED BY <2>1, <2>2, SeqEqual
  <1>4. SubSeq(w, k + 1, Len(w)) = SubSeq(d, i + 1, Len(d))
    <2> DEFINE a == SubSeq(w, k + 1, Len(w))
               b == SubSeq(d, i + 1, Len(d))
    <2>1. /\ a \in Seq(S)
          /\ Len(a) = Len(d) - i
          /\ \A j \in 1 .. Len(a) : a[j] = w[k + j]
      BY <1>1
    <2>2. /\ b \in Seq(S)
          /\ Len(b) = Len(d) - i
          /\ \A j \in 1 .. Len(b) : b[j] = d[i + j]
      OBVIOUS
    <2>3. ASSUME NEW j \in 1 .. Len(d) - i
          PROVE  w[k + j] = d[i + j]
      <3>1. /\ k + j \in 1 .. Len(w) /\ ~(k + j <= Len(rem))
            /\ (k + j) - Len(rem) + i - 1 = i + j
        BY <1>1
      <3>2. w[k + j] = d[(k + j) - Len(rem) + i - 1]
        BY <1>1, <3>1, Zenon
      <3> QED BY <3>1, <3>2
    <2> HIDE DEF a, b
    <2>4. a = b
      BY <2>1, <2>2, <2>3, SeqEqual
    <2> QED BY <2>4 DEF a, b
  <1>5. RemoveAt(w, k) = rem \o SubSeq(d, i + 1, Len(d))
    BY <1>3, <1>4 DEF RemoveAt
  <1> QED BY <1>2, <1>5 DEF w

(***************************************************************************)
(* The invariant.                                                          *)
(***************************************************************************)

\* The value that a push stores for a Size that is under way.
LEMMA MostGrows ==
    ASSUME NEW n \in Nat
    PROVE  /\ Min({n + 1, 2 * MaxEntries}) \in Nat
           /\ Min({n + 1, 2 * MaxEntries}) \in {n + 1, 2 * MaxEntries}
  <1>1. \E x \in {n + 1, 2 * MaxEntries} : \A y \in {n + 1, 2 * MaxEntries} : x <= y
    BY MaxEntriesAssumption
  <1>2. Min({n + 1, 2 * MaxEntries}) \in {n + 1, 2 * MaxEntries}
    BY <1>1 DEF Min
  <1> QED BY <1>2, MaxEntriesAssumption

\* A pass in progress, and the entries that wait, are well typed.
LEMMA WaitingType ==
    ASSUME IInv
    PROVE  Waiting \in Seq(Entry) /\ Count \in Nat
  <1>1. CASE drain.pc = "pass"
    <2>1. drain.i \in 1 .. Len(delayed) + 1
      BY <1>1 DEF IInv, TypeOK, PassOwnsDelayed, FreeHands
    <2>2. drain.remaining \o SubSeq(delayed, drain.i, Len(delayed)) \in Seq(Entry)
      BY <2>1, KeptAndRest DEF IInv, TypeOK
    <2> QED BY <1>1, <2>2 DEF Waiting, Count, IInv, TypeOK
  <1>2. CASE drain.pc # "pass"
    BY <1>2 DEF Waiting, Count, IInv, TypeOK
  <1> QED BY <1>1, <1>2

\* A push leaves everything but its own slice as it was; only the pushes that
\* the loop cannot overwrite touch delayed.
LEMMA PushKeepsInv ==
    ASSUME IInv, NEW t \in Tasks, Push(t) \/ PushPriority(t) \/ PushDelayed(t)
    PROVE  IInv'
  <1>1. Pushed
    BY DEF Push, PushPriority, PushDelayed
  <1>2. size' \in [Readers -> [pc : {"idle", "delayed", "done"}, total : Nat, most : Nat]]
    <2>1. ASSUME NEW r \in Readers
          PROVE  size'[r] \in [pc : {"idle", "delayed", "done"}, total : Nat, most : Nat]
      <3>1. Min({size[r].most + 1, 2 * MaxEntries}) \in Nat
        BY MostGrows DEF IInv, TypeOK
      <3> QED BY <1>1, <3>1 DEF Pushed, IInv, TypeOK
    <2> QED BY <1>1, <2>1 DEF Pushed
  <1>3. [task |-> t, due |-> FALSE] \in Entry
    BY DEF Entry
  <1>4. /\ items' \in Seq(Tasks) /\ pq' \in Seq(Tasks) /\ delayed' \in Seq(Entry)
        /\ drain.pc = "pass" => delayed' = delayed
    <2>1. /\ Append(items, t) \in Seq(Tasks) /\ Append(pq, t) \in Seq(Tasks)
          /\ Append(delayed, [task |-> t, due |-> FALSE]) \in Seq(Entry)
      BY <1>3 DEF IInv, TypeOK
    <2> QED BY <2>1 DEF Push, PushPriority, PushDelayed, IInv, TypeOK
  <1> QED BY <1>1, <1>2, <1>4 DEF Pushed, IInv, TypeOK, PassOwnsDelayed, FreeHands

\* Removing a position of a sequence gives a sequence.
LEMMA RemovedType ==
    ASSUME NEW S, NEW s \in Seq(S), NEW i \in DOMAIN s
    PROVE  RemoveAt(s, i) \in Seq(S)
  <1>1. SubSeq(s, 1, i - 1) \in Seq(S) /\ SubSeq(s, i + 1, Len(s)) \in Seq(S)
    OBVIOUS
  <1> QED BY <1>1, ConcatProperties DEF RemoveAt

\* Initially.
LEMMA InitInv == Init => IInv
  <1> SUFFICES ASSUME Init PROVE IInv
    OBVIOUS
  <1>1. items \in Seq(Tasks) /\ pq \in Seq(Tasks) /\ delayed \in Seq(Entry)
    BY DEF Init
  <1>2. IdleDrain \in [pc : {"select", "pass", "stopped"}, i : Nat \ {0}, n : Nat,
                      remaining : Seq(Entry)]
    BY DEF IdleDrain
  <1>3. NoSize \in [pc : {"idle", "delayed", "done"}, total : Nat, most : Nat]
    BY DEF NoSize
  <1>4. drain.pc # "pass"
    BY DEF Init, IdleDrain
  <1> QED BY <1>1, <1>2, <1>3, <1>4 DEF Init, IInv, TypeOK, PassOwnsDelayed, FreeHands

\* Every step keeps the invariant: the types, and that the pass ranges over
\* the field it will replace.
LEMMA NextInv == IInv /\ [Next]_vars => IInv'
  <1> SUFFICES ASSUME IInv, [Next]_vars PROVE IInv'
    OBVIOUS
  <1>1. ASSUME NEW t \in Tasks, Push(t) \/ PushPriority(t) \/ PushDelayed(t)
        PROVE  IInv'
    BY <1>1, PushKeepsInv
  <1>2. ASSUME NEW i \in DOMAIN delayed, FallDue(i)
        PROVE  IInv'
    <2>0. delayed[i] \in Entry
      BY DEF IInv, TypeOK
    <2>1. [delayed[i] EXCEPT !.due = TRUE] \in Entry
      BY <2>0 DEF Entry
    <2>2. delayed' \in Seq(Entry) /\ drain.pc # "pass"
      BY <1>2, <2>1 DEF FallDue, IInv, TypeOK
    <2> QED BY <1>2, <2>2 DEF FallDue, IInv, TypeOK, PassOwnsDelayed, FreeHands
  <1>3. ASSUME NEW c \in Consumers, CallPop(c) \/ PopSleep(c) \/ Finish(c)
        PROVE  IInv'
    BY <1>3 DEF CallPop, PopSleep, Finish, IInv, TypeOK, PassOwnsDelayed, FreeHands
  <1>4. ASSUME NEW c \in Consumers, popInternal(c)
        PROVE  IInv'
    <2>1. ASSUME NEW i \in Best
          PROVE  pq[i] \in Tasks /\ RemoveAt(pq, i) \in Seq(Tasks)
      <3>1. i \in DOMAIN pq
        BY DEF Best
      <3> QED BY <3>1, RemovedType DEF IInv, TypeOK
    <2>2. items # <<>> => Head(items) \in Tasks /\ Tail(items) \in Seq(Tasks)
      BY DEF IInv, TypeOK
    <2>3. /\ items' \in Seq(Tasks) /\ pq' \in Seq(Tasks)
          /\ held' \in [Consumers -> Tasks \cup {Nil}]
          /\ popping' \in [Consumers -> {"idle", "try", "empty"}]
      <3>1. CASE pq # <<>>
        BY ZenonT(60), <1>4, <2>1, <3>1 DEF popInternal, IInv, TypeOK
      <3>2. CASE pq = <<>> /\ items # <<>>
        BY <1>4, <2>2, <3>2 DEF popInternal, IInv, TypeOK
      <3>3. CASE pq = <<>> /\ items = <<>>
        BY <1>4, <3>3 DEF popInternal, IInv, TypeOK
      <3> QED BY <3>1, <3>2, <3>3
    <2> QED BY <1>4, <2>3 DEF popInternal, IInv, TypeOK, PassOwnsDelayed, FreeHands
  <1>5. ASSUME NEW r \in Readers, SizeItems(r) \/ SizeDelayed(r) \/ SizeReturn(r)
        PROVE  IInv'
    <2>1. Count \in Nat
      BY WaitingType
    <2>2. size' \in [Readers -> [pc : {"idle", "delayed", "done"}, total : Nat, most : Nat]]
      <3>1. CASE SizeItems(r)
        <4>1. Len(items) + Len(pq) \in Nat
          BY DEF IInv, TypeOK
        <4> QED BY <2>1, <3>1, <4>1 DEF SizeItems, IInv, TypeOK
      <3>2. CASE SizeDelayed(r)
        <4>1. size[r].total + Len(delayed) \in Nat
          BY DEF IInv, TypeOK
        <4> QED BY <3>2, <4>1 DEF SizeDelayed, IInv, TypeOK
      <3>3. CASE SizeReturn(r)
        BY <3>3 DEF SizeReturn, NoSize, IInv, TypeOK
      <3> QED BY <1>5, <3>1, <3>2, <3>3
    <2> QED BY <1>5, <2>2 DEF SizeItems, SizeDelayed, SizeReturn, IInv, TypeOK, PassOwnsDelayed, FreeHands
  <1>6. CASE Close
    BY <1>6 DEF Close, IInv, TypeOK, PassOwnsDelayed, FreeHands
  <1>7. CASE drainDelayedLoop
    <2>1. CASE DrainTick
      BY <2>1 DEF DrainTick, IInv, TypeOK, PassOwnsDelayed, FreeHands
    <2>2. CASE DrainEntry
      <3>1. drain.i \in 1 .. Len(delayed)
        BY <2>2 DEF DrainEntry, IInv, TypeOK, PassOwnsDelayed, FreeHands
      <3>0. delayed[drain.i] \in Entry
        BY <3>1 DEF IInv, TypeOK
      <3>2. delayed[drain.i].task \in Tasks
        BY <3>0 DEF Entry
      <3>3. /\ items' \in Seq(Tasks)
            /\ drain' \in [pc : {"select", "pass", "stopped"}, i : Nat \ {0}, n : Nat,
                           remaining : Seq(Entry)]
            /\ drain'.i <= drain'.n + 1 /\ drain'.n = Len(delayed)
        <4>0. /\ drain \in [pc : {"select", "pass", "stopped"}, i : Nat \ {0}, n : Nat,
                            remaining : Seq(Entry)]
              /\ items \in Seq(Tasks)
              /\ drain.n = Len(delayed) /\ drain.i <= drain.n
          BY <2>2 DEF DrainEntry, IInv, TypeOK, PassOwnsDelayed, FreeHands
        <4>1. CASE delayed[drain.i].due
          <5>1. /\ items' = Append(items, delayed[drain.i].task)
                /\ drain' = [drain EXCEPT !.i = @ + 1]
            BY <2>2, <4>1 DEF DrainEntry
          <5> QED BY <3>2, <4>0, <5>1
        <4>2. CASE ~delayed[drain.i].due
          <5>1. Append(drain.remaining, delayed[drain.i]) \in Seq(Entry)
            BY <3>0, <4>0
          <5>2. /\ items' = items
                /\ drain' = [drain EXCEPT !.i = @ + 1,
                                         !.remaining = Append(@, delayed[drain.i])]
            BY <2>2, <4>2 DEF DrainEntry
          <5>3. /\ drain'.pc = drain.pc /\ drain'.n = drain.n /\ drain'.i = drain.i + 1
                /\ drain'.remaining \in Seq(Entry)
                /\ drain' = [pc |-> drain'.pc, i |-> drain'.i, n |-> drain'.n,
                             remaining |-> drain'.remaining]
            BY <4>0, <5>1, <5>2
          <5>4. /\ drain'.pc \in {"select", "pass", "stopped"} /\ drain'.i \in Nat \ {0}
                /\ drain'.n \in Nat
            BY <4>0, <5>3
          <5>5. drain' \in [pc : {"select", "pass", "stopped"}, i : Nat \ {0}, n : Nat,
                            remaining : Seq(Entry)]
            BY <5>3, <5>4
          <5> QED BY <4>0, <5>2, <5>3, <5>5
        <4> QED BY <4>1, <4>2
      <3> QED BY <2>2, <3>3 DEF DrainEntry, IInv, TypeOK, PassOwnsDelayed, FreeHands
    <2>3. CASE DrainUnlock
      BY <2>3 DEF DrainUnlock, IdleDrain, IInv, TypeOK, PassOwnsDelayed, FreeHands
    <2>4. CASE DrainStop
      BY <2>4 DEF DrainStop, IInv, TypeOK, PassOwnsDelayed, FreeHands
    <2> QED BY <1>7, <2>1, <2>2, <2>3, <2>4 DEF drainDelayedLoop
  <1>8. CASE UNCHANGED vars
    BY <1>8 DEF vars, IInv, TypeOK, PassOwnsDelayed, FreeHands
  <1> QED BY <1>1, <1>2, <1>3, <1>4, <1>5, <1>6, <1>7, <1>8 DEF Next

\* The loop never overwrites an entry that PushDelayed added: for every
\* interleaving, the slice that a pass ranges over is the field itself.
THEOREM PassKeepsEntries == Spec => []PassOwnsDelayed
  <1>1. IInv => PassOwnsDelayed
    BY DEF IInv
  <1> QED BY <1>1, InitInv, NextInv, PTL DEF Spec

(***************************************************************************)
(* The refinement.                                                         *)
(***************************************************************************)

\* The empty queue is the abstract empty queue.
LEMMA InitRefines == Init => Abstract!QueueInit
  BY DEF Init, IdleDrain, Waiting, Abstract!QueueInit

\* The heap's order and the abstract one agree.
LEMMA BestIsHighest ==
    ASSUME IInv
    PROVE  Best = Abstract!Highest(pq)
  <1>1. \A i \in DOMAIN pq : pq[i] \in Tasks
    BY DEF IInv, TypeOK
  <1> QED BY <1>1, PriorityAssumption DEF Best, Abstract!Highest

\* Only the two steps of the loop that take or leave delayedMu, and none of
\* the ones that leave delayed and the pass alone, could change what waits.
LEMMA WaitingUnchanged == UNCHANGED <<delayed, drain>> => UNCHANGED Waiting
  BY DEF Waiting

\* Every step is a step of the abstract queue or leaves it as it is.
LEMMA NextRefines ==
    IInv /\ [Next]_vars => [Abstract!QueueNext]_(Abstract!queueVars)
  <1> SUFFICES ASSUME IInv, [Next]_vars
               PROVE  Abstract!QueueNext \/ UNCHANGED <<items, pq, Waiting, held>>
    BY DEF Abstract!queueVars
  <1>1. ASSUME NEW t \in Tasks, Push(t)
        PROVE  Abstract!Push(t)
    BY <1>1, WaitingUnchanged DEF Push, Pushed, Abstract!Push
  <1>2. ASSUME NEW t \in Tasks, PushPriority(t)
        PROVE  Abstract!PushPriority(t)
    BY <1>2, WaitingUnchanged DEF PushPriority, Pushed, Abstract!PushPriority
  <1>3. ASSUME NEW t \in Tasks, PushDelayed(t)
        PROVE  Abstract!PushDelayed(t)
    BY <1>3 DEF PushDelayed, Pushed, Waiting, Abstract!PushDelayed
  <1>4. ASSUME NEW i \in DOMAIN delayed, FallDue(i)
        PROVE  i \in DOMAIN Waiting /\ Abstract!Due(i)
    BY <1>4 DEF FallDue, Waiting, Abstract!Due
  <1>5. ASSUME NEW c \in Consumers, CallPop(c) \/ PopSleep(c)
        PROVE  UNCHANGED <<items, pq, Waiting, held>>
    BY <1>5, WaitingUnchanged DEF CallPop, PopSleep
  <1>6. ASSUME NEW c \in Consumers, popInternal(c)
        PROVE  Abstract!Pop(c) \/ UNCHANGED <<items, pq, Waiting, held>>
    <2>1. held[c] = Nil /\ UNCHANGED Waiting
      BY <1>6, WaitingUnchanged DEF popInternal, IInv, FreeHands
    <2>2. \A i : Abstract!RemoveAt(pq, i) = RemoveAt(pq, i)
      BY DEF RemoveAt, Abstract!RemoveAt
    <2>3. Best = Abstract!Highest(pq)
      BY BestIsHighest
    <2> QED BY <1>6, <2>1, <2>2, <2>3 DEF popInternal, Abstract!Pop
  <1>7. ASSUME NEW c \in Consumers, Finish(c)
        PROVE  Abstract!Finish(c)
    BY <1>7, WaitingUnchanged DEF Finish, Abstract!Finish
  <1>8. ASSUME NEW r \in Readers, SizeItems(r) \/ SizeDelayed(r) \/ SizeReturn(r)
        PROVE  UNCHANGED <<items, pq, Waiting, held>>
    BY <1>8, WaitingUnchanged DEF SizeItems, SizeDelayed, SizeReturn
  <1>9. CASE Close
    BY <1>9, WaitingUnchanged DEF Close
  <1>10. CASE DrainTick
    <2>1. Waiting' = <<>> \o SubSeq(delayed, 1, Len(delayed)) /\ Waiting = delayed
      BY <1>10 DEF DrainTick, Waiting
    <2>2. delayed \in Seq(Entry)
      BY DEF IInv, TypeOK
    <2> QED BY <1>10, <2>1, <2>2, WholeRange DEF DrainTick
  <1>11. CASE DrainEntry
    <2> DEFINE rem == drain.remaining
               k == Len(rem) + 1
    <2>1. /\ delayed \in Seq(Entry) /\ rem \in Seq(Entry)
          /\ drain.i \in 1 .. Len(delayed)
          /\ Waiting = rem \o SubSeq(delayed, drain.i, Len(delayed))
      BY <1>11 DEF DrainEntry, Waiting, IInv, TypeOK, PassOwnsDelayed, FreeHands
    <2>2. CASE delayed[drain.i].due
      <3>1. /\ items' = Append(items, delayed[drain.i].task)
            /\ Waiting' = rem \o SubSeq(delayed, drain.i + 1, Len(delayed))
            /\ UNCHANGED <<pq, held>>
        BY <1>11, <2>2 DEF DrainEntry, Waiting, IInv, TypeOK
      <3>2. /\ k \in DOMAIN Waiting
            /\ Waiting[k] = delayed[drain.i]
            /\ RemoveAt(Waiting, k) = rem \o SubSeq(delayed, drain.i + 1, Len(delayed))
        BY ZenonT(60), <2>1, MoveEntry
      <3>3. Abstract!Release(k)
        BY <2>2, <3>1, <3>2 DEF Abstract!Release, Abstract!RemoveAt, RemoveAt
      <3> QED BY <3>2, <3>3 DEF Abstract!QueueNext
    <2>3. CASE ~delayed[drain.i].due
      <3>1. Waiting' = Append(rem, delayed[drain.i])
                          \o SubSeq(delayed, drain.i + 1, Len(delayed))
        BY <1>11, <2>3 DEF DrainEntry, Waiting, IInv, TypeOK
      <3>2. Waiting' = Waiting
        BY <2>1, <3>1, KeepEntry
      <3> QED BY <1>11, <2>3, <3>2 DEF DrainEntry
    <2> QED BY <2>2, <2>3
  <1>12. CASE DrainUnlock
    <2>1. /\ delayed \in Seq(Entry) /\ drain.remaining \in Seq(Entry)
          /\ drain.i = Len(delayed) + 1
      BY <1>12 DEF DrainUnlock, IInv, TypeOK, PassOwnsDelayed, FreeHands
    <2>2. /\ Waiting = drain.remaining \o SubSeq(delayed, Len(delayed) + 1, Len(delayed))
          /\ Waiting' = drain.remaining
      BY <1>12, <2>1 DEF DrainUnlock, IdleDrain, Waiting
    <2> QED BY <1>12, <2>1, <2>2, EmptyRange DEF DrainUnlock
  <1>13. CASE DrainStop
    BY <1>13 DEF DrainStop, Waiting, IInv, TypeOK
  <1>14. CASE UNCHANGED vars
    BY <1>14, WaitingUnchanged DEF vars
  <1> QED
    BY <1>1, <1>2, <1>3, <1>4, <1>5, <1>6, <1>7, <1>8, <1>9, <1>10, <1>11, <1>12,
       <1>13, <1>14
    DEF Next, drainDelayedLoop, Abstract!QueueNext

\* The in-memory queue keeps the promises of the queue interface.
THEOREM QueueRefinement == Spec => Implements
  BY InitInv, NextInv, InitRefines, NextRefines, PTL
  DEF Spec, Implements, Abstract!QueueSpec

\* In every behaviour every variable of the queue has its type: the index of a
\* pass stays a position of the slice and a consumer holds a task or nothing.
THEOREM QueueTypes == Spec => []TypeOK
  <1>1. IInv => TypeOK
    BY DEF IInv
  <1> QED BY <1>1, InitInv, NextInv, PTL DEF Spec

(***************************************************************************)
(* Size.  Between its two locks the number it read, together with what     *)
(* still waits, is at most what was there plus what was pushed; the cap on *)
(* the history is never below what Size can reach.                         *)
(***************************************************************************)
SizeInv ==
    /\ Count <= MaxEntries
    /\ \A r \in Readers :
          /\ size[r].pc = "delayed" => /\ size[r].total <= MaxEntries
                                       /\ size[r].total + Len(Waiting) <= size[r].most
          /\ size[r].pc = "done" => size[r].total <= size[r].most

\* Removing a position of a sequence makes it one shorter.
LEMMA RemovedLength ==
    ASSUME NEW S, NEW s \in Seq(S), NEW i \in DOMAIN s
    PROVE  Len(s) \in Nat /\ Len(RemoveAt(s, i)) = Len(s) - 1
  <1> DEFINE a == SubSeq(s, 1, i - 1)
             b == SubSeq(s, i + 1, Len(s))
  <1>1. a \in Seq(S) /\ b \in Seq(S) /\ Len(a) = i - 1 /\ Len(b) = Len(s) - i
    OBVIOUS
  <1>2. i \in Nat /\ Len(s) \in Nat
    OBVIOUS
  <1>3. RemoveAt(s, i) = a \o b
    BY DEF RemoveAt
  <1> HIDE DEF a, b
  <1>4. Len(a \o b) = Len(a) + Len(b)
    BY <1>1, ConcatProperties
  <1> QED BY <1>1, <1>2, <1>3, <1>4

\* How many entries wait, in a pass and outside one.
LEMMA WaitingLength ==
    ASSUME NEW d \in Seq(Entry),
           NEW p \in [pc : {"select", "pass", "stopped"}, i : Nat \ {0}, n : Nat,
                      remaining : Seq(Entry)],
           p.pc = "pass" => p.i <= Len(d) + 1
    PROVE  LET w == IF p.pc = "pass" THEN p.remaining \o SubSeq(d, p.i, Len(d)) ELSE d
           IN  /\ Len(w) \in Nat
               /\ Len(w) = IF p.pc = "pass" THEN Len(p.remaining) + Len(d) - p.i + 1
                                            ELSE Len(d)
  <1>1. CASE p.pc = "pass"
    <2>1. p.i \in 1 .. Len(d) + 1 /\ p.remaining \in Seq(Entry)
      BY <1>1
    <2>2. /\ p.remaining \o SubSeq(d, p.i, Len(d)) \in Seq(Entry)
          /\ Len(p.remaining \o SubSeq(d, p.i, Len(d))) = Len(p.remaining) + Len(d) - p.i + 1
      BY <2>1, KeptAndRest
    <2> QED BY <1>1, <2>2
  <1>2. CASE p.pc # "pass"
    BY <1>2
  <1> QED BY <1>1, <1>2

\* The numbers of entries before and after a step.
LEMMA Numbers ==
    ASSUME IInv, IInv'
    PROVE  /\ Len(items) \in Nat /\ Len(pq) \in Nat /\ Len(Waiting) \in Nat
           /\ Len(items') \in Nat /\ Len(pq') \in Nat /\ Len(Waiting') \in Nat
           /\ Count = Len(items) + Len(pq) + Len(Waiting)
           /\ Count' = Len(items') + Len(pq') + Len(Waiting')
           /\ Len(Waiting) = IF drain.pc = "pass"
                               THEN Len(drain.remaining) + Len(delayed) - drain.i + 1
                               ELSE Len(delayed)
           /\ Len(Waiting') = IF drain'.pc = "pass"
                                THEN Len(drain'.remaining) + Len(delayed') - drain'.i + 1
                                ELSE Len(delayed')
           /\ MaxEntries \in Nat
  <1>1. /\ Len(items) \in Nat /\ Len(pq) \in Nat /\ Len(items') \in Nat /\ Len(pq') \in Nat
        /\ delayed \in Seq(Entry) /\ delayed' \in Seq(Entry)
        /\ drain \in [pc : {"select", "pass", "stopped"}, i : Nat \ {0}, n : Nat,
                      remaining : Seq(Entry)]
        /\ drain' \in [pc : {"select", "pass", "stopped"}, i : Nat \ {0}, n : Nat,
                       remaining : Seq(Entry)]
    BY DEF IInv, TypeOK
  <1>2. /\ drain.pc = "pass" => drain.i <= Len(delayed) + 1
        /\ drain'.pc = "pass" => drain'.i <= Len(delayed') + 1
    BY DEF IInv, PassOwnsDelayed
  <1>3. /\ Len(Waiting) \in Nat
        /\ Len(Waiting) = IF drain.pc = "pass"
                            THEN Len(drain.remaining) + Len(delayed) - drain.i + 1
                            ELSE Len(delayed)
    BY <1>1, <1>2, WaitingLength DEF Waiting
  <1>4. /\ Len(Waiting') \in Nat
        /\ Len(Waiting') = IF drain'.pc = "pass"
                             THEN Len(drain'.remaining) + Len(delayed') - drain'.i + 1
                             ELSE Len(delayed')
    BY <1>1, <1>2, WaitingLength DEF Waiting
  <1> QED BY <1>1, <1>3, <1>4, MaxEntriesAssumption DEF Count

\* A step without a push or a call of Size, after which no more entries wait
\* and no more are there than before.
LEMMA SizeKept ==
    ASSUME IInv, IInv', SizeInv, UNCHANGED size, Len(Waiting') <= Len(Waiting), Count' <= Count
    PROVE  SizeInv'
  <1>1. Count \in Nat /\ Count' \in Nat /\ Count' <= MaxEntries
    BY Numbers DEF SizeInv
  <1>2. ASSUME NEW r \in Readers
        PROVE  /\ size'[r].pc = "delayed" => /\ size'[r].total <= MaxEntries
                                             /\ size'[r].total + Len(Waiting') <= size'[r].most
               /\ size'[r].pc = "done" => size'[r].total <= size'[r].most
    BY Numbers DEF SizeInv, IInv, TypeOK
  <1> QED BY <1>1, <1>2 DEF SizeInv

\* A push adds one entry, to the ones that wait or to the others, and one to
\* the history of every Size that is under way.
LEMMA SizePush ==
    ASSUME IInv, IInv', SizeInv, NEW t \in Tasks, Push(t) \/ PushPriority(t) \/ PushDelayed(t)
    PROVE  SizeInv'
  <1>1. Pushed
    BY DEF Push, PushPriority, PushDelayed
  <1>2. /\ Len(items') + Len(pq') + Len(Waiting') = Len(items) + Len(pq) + Len(Waiting) + 1
        /\ Len(Waiting') <= Len(Waiting) + 1
    <2>1. CASE Push(t)
      <3>1. Len(items') = Len(items) + 1 /\ UNCHANGED <<pq, Waiting>>
        BY <2>1, WaitingUnchanged DEF Push, Pushed, IInv, TypeOK
      <3> QED BY <3>1, Numbers
    <2>2. CASE PushPriority(t)
      <3>1. Len(pq') = Len(pq) + 1 /\ UNCHANGED <<items, Waiting>>
        BY <2>2, WaitingUnchanged DEF PushPriority, Pushed, IInv, TypeOK
      <3> QED BY <3>1, Numbers
    <2>3. CASE PushDelayed(t)
      <3>1. /\ Len(delayed') = Len(delayed) + 1 /\ UNCHANGED <<items, pq, drain>>
            /\ drain.pc # "pass"
        BY <2>3 DEF PushDelayed, Pushed, IInv, TypeOK
      <3> QED BY <3>1, Numbers
    <2> QED BY <2>1, <2>2, <2>3
  <1>3. Count < MaxEntries
    BY <1>1 DEF Pushed
  <1>4. Count' <= MaxEntries /\ Len(Waiting') <= MaxEntries
    BY <1>2, <1>3, Numbers
  <1>5. ASSUME NEW r \in Readers
        PROVE  /\ size'[r].pc = "delayed" => /\ size'[r].total <= MaxEntries
                                             /\ size'[r].total + Len(Waiting') <= size'[r].most
               /\ size'[r].pc = "done" => size'[r].total <= size'[r].most
    <2>1. size[r].total \in Nat /\ size[r].most \in Nat
      BY DEF IInv, TypeOK
    <2>2. CASE size[r].pc = "delayed"
      <3>1. /\ size'[r].pc = "delayed" /\ size'[r].total = size[r].total
            /\ size'[r].most = Min({size[r].most + 1, 2 * MaxEntries})
        BY <1>1, <2>2 DEF Pushed, IInv, TypeOK
      <3>2. size[r].total <= MaxEntries /\ size[r].total + Len(Waiting) <= size[r].most
        BY <2>2 DEF SizeInv
      <3>3. size'[r].most = size[r].most + 1 \/ size'[r].most = 2 * MaxEntries
        BY <2>1, <3>1, MostGrows
      <3>4. size'[r].total + Len(Waiting') <= size'[r].most
        <4>1. ASSUME NEW total \in Nat, NEW w \in Nat, NEW w1 \in Nat, NEW most \in Nat,
                     NEW max \in Nat, NEW m \in Nat, total <= max, w1 <= max, w1 <= w + 1,
                     total + w <= most, m = most + 1 \/ m = 2 * max
              PROVE  total + w1 <= m
          BY <4>1
        <4>2. size'[r].most \in Nat
          BY <2>1, <3>1, MostGrows
        <4>3. Len(Waiting) \in Nat /\ Len(Waiting') \in Nat /\ MaxEntries \in Nat
          BY Numbers
        <4> QED BY <1>2, <1>4, <2>1, <3>1, <3>2, <3>3, <4>1, <4>2, <4>3
      <3> QED BY <3>1, <3>2, <3>4
    <2>3. CASE size[r].pc # "delayed"
      BY <1>1, <2>3 DEF Pushed, SizeInv
    <2> QED BY <2>2, <2>3
  <1> QED BY <1>4, <1>5 DEF SizeInv

\* Pop takes one of the entries that do not wait.
LEMMA SizePop ==
    ASSUME IInv, IInv', SizeInv, NEW c \in Consumers, popInternal(c)
    PROVE  SizeInv'
  <1>1. UNCHANGED <<size, Waiting>>
    BY WaitingUnchanged DEF popInternal
  <1>2. Len(items') <= Len(items) /\ Len(pq') <= Len(pq)
    <2>1. items \in Seq(Tasks) /\ pq \in Seq(Tasks)
      BY DEF IInv, TypeOK
    <2>2. CASE \E i \in Best : pq' = RemoveAt(pq, i) /\ UNCHANGED items
      <3>1. PICK i \in DOMAIN pq : pq' = RemoveAt(pq, i)
        BY <2>2 DEF Best
      <3>2. Len(pq) \in Nat /\ Len(RemoveAt(pq, i)) = Len(pq) - 1
        BY <2>1, RemovedLength
      <3> QED BY <2>2, <3>1, <3>2, Numbers
    <2>3. CASE items # <<>> /\ items' = Tail(items) /\ UNCHANGED pq
      BY <2>1, <2>3
    <2>4. CASE UNCHANGED <<items, pq>>
      BY <2>4, Numbers
    <2> QED BY <2>2, <2>3, <2>4 DEF popInternal
  <1>3. Len(Waiting') <= Len(Waiting) /\ Count' <= Count
    BY <1>1, <1>2, Numbers
  <1> QED BY <1>1, <1>3, SizeKept

\* The two halves of Size.
LEMMA SizeCalls ==
    ASSUME IInv, IInv', SizeInv, NEW q \in Readers,
           SizeItems(q) \/ SizeDelayed(q) \/ SizeReturn(q)
    PROVE  SizeInv'
  <1>1. UNCHANGED <<items, pq, delayed, drain, Waiting>>
    BY WaitingUnchanged DEF SizeItems, SizeDelayed, SizeReturn
  <1>2. Count' = Count
    BY <1>1 DEF Count
  <1>3. ASSUME NEW r \in Readers
        PROVE  /\ size'[r].pc = "delayed" => /\ size'[r].total <= MaxEntries
                                             /\ size'[r].total + Len(Waiting') <= size'[r].most
               /\ size'[r].pc = "done" => size'[r].total <= size'[r].most
    <2>1. CASE r # q
      <3>1. size'[r] = size[r]
        BY <2>1 DEF SizeItems, SizeDelayed, SizeReturn, IInv, TypeOK
      <3> QED BY <1>1, <3>1 DEF SizeInv
    <2>2. CASE r = q /\ SizeItems(q)
      <3>1. /\ size'[r].pc = "delayed" /\ size'[r].total = Len(items) + Len(pq)
            /\ size'[r].most = Count
        BY <2>2 DEF SizeItems, IInv, TypeOK
      <3> QED BY <1>1, <3>1, Numbers DEF SizeInv
    <2>3. CASE r = q /\ SizeDelayed(q)
      <3>1. /\ size[r].pc = "delayed" /\ size'[r].pc = "done" /\ drain.pc # "pass"
            /\ size'[r].total = size[r].total + Len(delayed) /\ size'[r].most = size[r].most
        BY <2>3 DEF SizeDelayed, IInv, TypeOK
      <3> QED BY <3>1, Numbers DEF SizeInv
    <2>4. CASE r = q /\ SizeReturn(q)
      <3>1. size'[r].pc = "idle"
        BY <2>4 DEF SizeReturn, NoSize, IInv, TypeOK
      <3> QED BY <3>1
    <2> QED BY <2>1, <2>2, <2>3, <2>4
  <1> QED BY <1>2, <1>3 DEF SizeInv

\* The loop moves entries from the ones that wait to the ready ones.
LEMMA SizeDrain ==
    ASSUME IInv, IInv', SizeInv, drainDelayedLoop
    PROVE  SizeInv'
  <1>1. UNCHANGED <<pq, size>>
    BY DEF drainDelayedLoop, DrainTick, DrainEntry, DrainUnlock, DrainStop
  <1>2. /\ Len(Waiting') <= Len(Waiting)
        /\ Len(items') + Len(Waiting') = Len(items) + Len(Waiting)
    <2>1. CASE DrainTick
      <3>1. /\ UNCHANGED <<items, delayed>> /\ drain.pc # "pass" /\ drain'.pc = "pass"
            /\ drain'.i = 1 /\ drain'.remaining = <<>>
        BY <2>1 DEF DrainTick
      <3>2. Len(drain'.remaining) = 0
        BY <3>1
      <3> QED BY <3>1, <3>2, Numbers
    <2>2. CASE DrainEntry
      <3>1. /\ drain \in [pc : {"select", "pass", "stopped"}, i : Nat \ {0}, n : Nat,
                          remaining : Seq(Entry)]
            /\ drain.pc = "pass" /\ UNCHANGED delayed /\ items \in Seq(Tasks)
        BY <2>2 DEF DrainEntry, IInv, TypeOK
      <3>2. /\ drain'.pc = "pass" /\ drain'.i = drain.i + 1
            /\ \/ Len(items') = Len(items) + 1 /\ Len(drain'.remaining) = Len(drain.remaining)
               \/ items' = items /\ Len(drain'.remaining) = Len(drain.remaining) + 1
        <4>1. CASE delayed[drain.i].due
          <5>1. /\ items' = Append(items, delayed[drain.i].task)
                /\ drain' = [drain EXCEPT !.i = @ + 1]
            BY <2>2, <4>1 DEF DrainEntry
          <5> QED BY <3>1, <5>1
        <4>2. CASE ~delayed[drain.i].due
          <5>1. /\ items' = items
                /\ drain' = [drain EXCEPT !.i = @ + 1,
                                         !.remaining = Append(@, delayed[drain.i])]
            BY <2>2, <4>2 DEF DrainEntry
          <5>2. drain'.remaining = Append(drain.remaining, delayed[drain.i])
            BY <3>1, <5>1
          <5>3. Len(drain'.remaining) = Len(drain.remaining) + 1
            BY <3>1, <5>2
          <5> QED BY <3>1, <5>1, <5>3
        <4> QED BY <4>1, <4>2
      <3>3. /\ Len(Waiting) = Len(drain.remaining) + Len(delayed) - drain.i + 1
            /\ Len(Waiting') = Len(drain'.remaining) + Len(delayed) - (drain.i + 1) + 1
            /\ Len(Waiting) \in Nat /\ Len(Waiting') \in Nat /\ Len(items) \in Nat
        BY <3>1, <3>2, Numbers
      <3>4. drain.i \in Nat /\ Len(drain.remaining) \in Nat /\ Len(delayed) \in Nat
        BY <3>1 DEF IInv, TypeOK
      <3>5. CASE Len(items') = Len(items) + 1 /\ Len(drain'.remaining) = Len(drain.remaining)
        <4>1. \A m, d, i \in Nat : m + d - (i + 1) + 1 = (m + d - i + 1) - 1
          OBVIOUS
        <4>2. Len(Waiting') = Len(drain.remaining) + Len(delayed) - (drain.i + 1) + 1
          BY <3>3, <3>5, Zenon
        <4>3. Len(drain.remaining) + Len(delayed) - (drain.i + 1) + 1
                = (Len(drain.remaining) + Len(delayed) - drain.i + 1) - 1
          BY <3>4, <4>1, Zenon
        <4>4. Len(Waiting') = Len(Waiting) - 1
          BY <3>3, <4>2, <4>3, Zenon
        <4> QED BY <3>3, <3>5, <4>4
      <3>6. CASE items' = items /\ Len(drain'.remaining) = Len(drain.remaining) + 1
        <4>1. \A m, d, i \in Nat : (m + 1) + d - (i + 1) + 1 = m + d - i + 1
          OBVIOUS
        <4>2. Len(Waiting') = (Len(drain.remaining) + 1) + Len(delayed) - (drain.i + 1) + 1
          BY <3>3, <3>6, Zenon
        <4>3. Len(Waiting') = Len(Waiting)
          BY <3>3, <3>4, <4>1, <4>2, Zenon
        <4> QED BY <3>3, <3>6, <4>3
      <3> QED BY <3>2, <3>5, <3>6
    <2>3. CASE DrainUnlock
      <3>1. /\ drain.pc = "pass" /\ drain.i = Len(delayed) + 1 /\ drain'.pc # "pass"
            /\ delayed' = drain.remaining /\ UNCHANGED items
        BY <2>3 DEF DrainUnlock, IdleDrain, IInv, TypeOK, PassOwnsDelayed
      <3> QED BY <3>1, Numbers
    <2>4. CASE DrainStop
      <3>1. drain.pc # "pass" /\ drain'.pc # "pass" /\ UNCHANGED <<items, delayed>>
        BY <2>4 DEF DrainStop, IInv, TypeOK
      <3> QED BY <3>1, Numbers
    <2> QED BY <2>1, <2>2, <2>3, <2>4 DEF drainDelayedLoop
  <1>3. Count' <= Count
    BY <1>1, <1>2, Numbers
  <1> QED BY <1>1, <1>2, <1>3, SizeKept

\* Every step keeps the invariant of Size.
LEMMA SizeNext == IInv /\ SizeInv /\ [Next]_vars => SizeInv'
  <1> SUFFICES ASSUME IInv, IInv', SizeInv, [Next]_vars PROVE SizeInv'
    BY NextInv
  <1>1. ASSUME NEW t \in Tasks, Push(t) \/ PushPriority(t) \/ PushDelayed(t)
        PROVE  SizeInv'
    BY <1>1, SizePush
  <1>2. ASSUME NEW i \in DOMAIN delayed, FallDue(i)
        PROVE  SizeInv'
    <2>1. /\ Len(delayed') = Len(delayed) /\ UNCHANGED <<items, pq, drain, size>>
          /\ drain.pc # "pass"
      BY <1>2 DEF FallDue, IInv, TypeOK
    <2>2. Len(Waiting') <= Len(Waiting) /\ Count' <= Count
      BY <2>1, Numbers
    <2> QED BY <2>1, <2>2, SizeKept
  <1>3. ASSUME NEW c \in Consumers, popInternal(c)
        PROVE  SizeInv'
    BY <1>3, SizePop
  <1>4. ASSUME NEW r \in Readers, SizeItems(r) \/ SizeDelayed(r) \/ SizeReturn(r)
        PROVE  SizeInv'
    BY <1>4, SizeCalls
  <1>5. CASE drainDelayedLoop
    BY <1>5, SizeDrain
  <1>6. CASE UNCHANGED <<items, pq, delayed, drain, size>>
    <2>1. Len(Waiting') <= Len(Waiting) /\ Count' <= Count
      BY <1>6, WaitingUnchanged, Numbers
    <2> QED BY <1>6, <2>1, SizeKept
  <1> QED
    BY <1>1, <1>2, <1>3, <1>4, <1>5, <1>6 DEF Next, vars, CallPop, PopSleep, Finish, Close

\* The empty queue.
LEMMA SizeInit == Init => SizeInv
  <1> SUFFICES ASSUME Init PROVE SizeInv
    OBVIOUS
  <1>1. Waiting = <<>> /\ items = <<>> /\ pq = <<>>
    BY DEF Init, IdleDrain, Waiting
  <1>2. Count = 0
    BY <1>1 DEF Count
  <1>3. \A r \in Readers : size[r].pc = "idle"
    BY DEF Init, NoSize
  <1> QED BY <1>2, <1>3, MaxEntriesAssumption DEF SizeInv

\* However Size, the pushes, Pop and the loop interleave, Size returns no more
\* than there was when it began plus what was pushed since: an entry that the
\* loop moves between the two locks is not counted in both slices.
THEOREM SizeCountsOnce == Spec => []SizeNotInflated
  <1>1. Init => IInv /\ SizeInv
    BY InitInv, SizeInit
  <1>2. IInv /\ SizeInv /\ [Next]_vars => (IInv /\ SizeInv)'
    BY NextInv, SizeNext
  <1>3. IInv /\ SizeInv => SizeNotInflated
    BY DEF SizeInv, SizeNotInflated
  <1> QED BY <1>1, <1>2, <1>3, PTL DEF Spec
=============================================================================
