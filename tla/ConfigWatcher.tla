---------------------------- MODULE ConfigWatcher ---------------------------
(***************************************************************************)
(* ConfigWatcher.Watch of internal/config/watcher.go with the callback of  *)
(* Scheduler.Start, which takes a parameter over when it is positive; zero *)
(* stands for every text that does not begin with a positive number.       *)
(* Deletions are not handled.                                              *)
(***************************************************************************)
EXTENDS EtcdLog

CONSTANT Default   \* the parameters in the configuration file
ASSUME DefaultAssumption == Default \in [Params -> Nat \ {0}]

VARIABLES
    cwPc,     \* "get", "load", "watch", "ended"
    cwTodo,   \* keys of the list for which the callback has not run
    cwGot,    \* the list was answered
    cwPos,    \* revision up to which the watcher has got
    cwFrom,   \* revision after which the watch began
    param     \* the fields maxConcurrent and tickInterval of the scheduler

configVars == <<cwPc, cwTodo, cwGot, cwPos, cwFrom, param>>

ConfigInit ==
    /\ cwPc = "get" /\ cwTodo = {} /\ cwGot = FALSE /\ cwPos = 0 /\ cwFrom = 0
    /\ param = Default

GetConfig(outcome) ==
    /\ cwPc = "get"
    /\ Attempt(outcome)
    /\ cwPc' = "load"
    /\ cwGot' = (outcome = "ok")
    /\ cwPos' = Len(log)
    /\ cwTodo' = IF outcome = "ok" THEN {k \in Params : Now(k) # NoVal} ELSE {}
    /\ UNCHANGED <<cwFrom, param>>

Usable(v) == v # NoVal /\ v > 0

\* Mutant: zero is not refused.
CallbackUnchecked(k, v) ==
    param' = IF v # NoVal THEN [param EXCEPT ![k] = v] ELSE param

\* Mutant: a deletion or an unusable value brings the default back.
CallbackResets(k, v) ==
    param' = [param EXCEPT ![k] = IF Usable(v) THEN v ELSE Default[k]]

Callback(k, v) ==
    param' = IF Usable(v) THEN [param EXCEPT ![k] = v] ELSE param

LoadParam(k) ==
    /\ cwPc = "load" /\ k \in cwTodo
    /\ Callback(k, ValueAt(k, cwPos))
    /\ cwTodo' = cwTodo \ {k}
    /\ UNCHANGED <<cwPc, cwGot, cwPos, cwFrom, faults>>

ConfigRev == IF cwGot THEN cwPos ELSE Len(log)

WatchConfig ==
    /\ cwPc = "load" /\ cwTodo = {}
    /\ cwPc' = "watch"
    /\ cwPos' = ConfigRev
    /\ cwFrom' = ConfigRev
    /\ UNCHANGED <<cwTodo, cwGot, param, faults>>

\* Only Put events reach the callback.
ConfigEvent ==
    /\ cwPc = "watch" /\ NextEvents(Params, cwPos) # {}
    /\ cwPos' = Min(NextEvents(Params, cwPos))
    /\ Callback(log[cwPos'].key, log[cwPos'].val)
    /\ UNCHANGED <<cwPc, cwTodo, cwGot, cwFrom, faults>>

\* The watch is cancelled by etcd: the channel is closed and the loop ends.
ConfigEnds ==
    /\ Fault
    /\ cwPc = "watch"
    /\ cwPc' = "ended"
    /\ UNCHANGED <<cwTodo, cwGot, cwPos, cwFrom, param>>

ConfigStep ==
    \/ \E outcome \in {"ok", "error"} : GetConfig(outcome)
    \/ \E k \in Params : LoadParam(k)
    \/ WatchConfig \/ ConfigEvent

ConfigNext == ConfigStep \/ ConfigEnds

-----------------------------------------------------------------------------
ConfigTypeOK ==
    /\ cwPc \in {"get", "load", "watch", "ended"}
    /\ cwTodo \subseteq Params /\ cwGot \in BOOLEAN
    /\ cwPos \in 0 .. Len(log) /\ cwFrom \in 0 .. cwPos
    /\ param \in [Params -> Nat \ {0}]

\* The revisions whose values of k the callback is given: the one the list
\* answered, and those after it up to where the watch has got.
Shown(k) ==
    {j \in About(log, k, cwPos) :
        j > cwFrom \/ (cwGot /\ \A i \in About(log, k, cwFrom) : i <= j)}

Accepted(k) == {j \in Shown(k) : Usable(log[j].val)}

\* The scheduler's field holds the last usable value that etcd had, from the
\* list on, up to the revision the watch has got to, and the one of the file
\* when there was none: no change falls between the list and the watch, and a
\* deletion or an unusable value leaves the field as it was.
ConfigCurrent ==
    cwPc \in {"watch", "ended"} =>
        \A k \in Params :
            param[k] = IF Accepted(k) = {} THEN Default[k] ELSE log[Max(Accepted(k))].val
=============================================================================
