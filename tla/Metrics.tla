------------------------------- MODULE Metrics -------------------------------
(***************************************************************************)
(* Metrics and InstrumentedGroup (cache/metrics.go): counters that are     *)
(* added to, loaded and set to zero one at a time, under no lock.          *)
(*                                                                         *)
(* InstrumentedGroup.Get records a call of Group.Get when it is over: its  *)
(* time, then that there was one more, then whether it was a hit, by which *)
(* it means that there was no error.  Stats, behind ServeMetrics and       *)
(* ServePrometheus, loads the same counters while this goes on.            *)
(*                                                                         *)
(* The counters of evictions, peers and sizes are not here: no code adds   *)
(* to the former, and nobody calls UpdateSize.                             *)
(***************************************************************************)
EXTENDS Integers, FiniteSets, Functions, Sequences

CONSTANTS
    Caller,
    Durations,          \* how long a Group.Get takes, in nanoseconds
    MaxGets, MaxResets  \* bounds: Gets and calls of ResetStats

ASSUME MetricsAssumption ==
    Durations \subseteq Nat /\ MaxGets \in Nat /\ MaxResets \in Nat

Counter == {"hits", "misses", "getCount", "totalGetTime"}

VARIABLES
    counters,   \* the counters
    doing,      \* goroutines: what they are about
    todo,       \* the counters they have still to add to, load or reset
    took,       \* InstrumentedGroup.Get: the duration of its Group.Get
    loaded,     \* Stats: what it has loaded
    truth,      \* history: the time that the Gets in getCount took
    known,      \* history: what it was when a Stats loaded getCount
    hitsThen,   \* history: what hits was when a Stats loaded misses
    skewed,     \* history: a ResetStats has overlapped a recording, a Stats or
                \* another ResetStats
    begun,      \* bound the exploration
    resets

metricsVars == <<counters, doing, todo, took, loaded, truth, known, hitsThen,
                 skewed, begun, resets>>

MetricsTypeOK ==
    /\ counters \in [Counter -> Nat]
    /\ doing \in [Caller -> {"idle", "get", "record", "stats", "reset"}]
    /\ todo \in [Caller -> Seq(Counter)]
    /\ took \in [Caller -> Nat]
    /\ loaded \in [Caller -> [Counter -> Nat]]
    /\ truth \in Nat
    /\ known \in [Caller -> Nat] /\ hitsThen \in [Caller -> Nat]
    /\ skewed \in BOOLEAN
    /\ begun \in 0 .. MaxGets /\ resets \in 0 .. MaxResets

Zero == [c \in Counter |-> 0]

\* NewMetrics
MetricsInit ==
    /\ counters = Zero
    /\ doing = [p \in Caller |-> "idle"]
    /\ todo = [p \in Caller |-> <<>>]
    /\ took = [p \in Caller |-> 0]
    /\ loaded = [p \in Caller |-> Zero]
    /\ truth = 0
    /\ known = [p \in Caller |-> 0] /\ hitsThen = [p \in Caller |-> 0]
    /\ skewed = FALSE
    /\ begun = 0 /\ resets = 0

About(p, what, order) ==
    /\ doing' = [doing EXCEPT ![p] = what]
    /\ todo' = [todo EXCEPT ![p] = order]

IsLast(p) == Len(todo[p]) = 1

\* One counter is done with; after the last the goroutine is idle.
Done(p) ==
    /\ todo' = [todo EXCEPT ![p] = Tail(@)]
    /\ doing' = [doing EXCEPT ![p] = IF IsLast(p) THEN "idle" ELSE @]

-----------------------------------------------------------------------------
(* Faulty variants: the bug each property catches. *)

\* The Get is counted before its time is added.
RecordOrderCountFirst(failed) ==
    <<"getCount", "totalGetTime", IF failed THEN "misses" ELSE "hits">>

\* A call that panics is timed and counted, and is neither hit nor miss.
GetPanicsRecorded(p) ==
    /\ doing[p] = "get"
    /\ About(p, "record", <<"totalGetTime", "getCount">>)
    /\ UNCHANGED <<counters, took, loaded, truth, known, hitsThen, skewed,
                   begun, resets>>

-----------------------------------------------------------------------------
(* InstrumentedGroup.Get *)

GetStart(p) ==
    /\ doing[p] = "idle"
    /\ begun < MaxGets
    /\ begun' = begun + 1
    /\ About(p, "get", <<>>)
    /\ UNCHANGED <<counters, took, loaded, truth, known, hitsThen, skewed,
                   resets>>

\* RecordGetTime, and then RecordMiss or RecordHit.
RecordOrder(failed) ==
    <<"totalGetTime", "getCount", IF failed THEN "misses" ELSE "hits">>

Resetting == \E p \in Caller : doing[p] = "reset"

\* Group.Get, external here, returns.
GetReturns(p, d, failed) ==
    /\ doing[p] = "get"
    /\ took' = [took EXCEPT ![p] = d]
    /\ About(p, "record", RecordOrder(failed))
    /\ skewed' = (skewed \/ Resetting)
    /\ UNCHANGED <<counters, loaded, truth, known, hitsThen, begun, resets>>

\* The getter panics: nothing is recorded.
GetPanics(p) ==
    /\ doing[p] = "get"
    /\ About(p, "idle", <<>>)
    /\ UNCHANGED <<counters, took, loaded, truth, known, hitsThen, skewed,
                   begun, resets>>

Record(p) ==
    LET c == Head(todo[p]) IN
    /\ doing[p] = "record"
    /\ counters' = [counters EXCEPT
                        ![c] = @ + IF c = "totalGetTime" THEN took[p] ELSE 1]
    /\ truth' = IF c = "getCount" THEN truth + took[p] ELSE truth
    /\ took' = IF IsLast(p) THEN [took EXCEPT ![p] = 0] ELSE took
    /\ Done(p)
    /\ UNCHANGED <<loaded, known, hitsThen, skewed, begun, resets>>

-----------------------------------------------------------------------------
(* Stats and ResetStats *)

StatsOrder == <<"hits", "misses", "getCount", "totalGetTime">>

StatsStart(p) ==
    /\ doing[p] = "idle"
    /\ About(p, "stats", StatsOrder)
    /\ skewed' = (skewed \/ Resetting)
    /\ UNCHANGED <<counters, took, loaded, truth, known, hitsThen, begun,
                   resets>>

\* A counter is loaded; with the last one the statistics are complete.  (The
\* time is loaded only if getCount is not zero, but nothing is done with it.)
Load(p) ==
    LET c == Head(todo[p]) IN
    /\ doing[p] = "stats"
    /\ loaded' = [loaded EXCEPT ![p] =
                    IF IsLast(p) THEN Zero ELSE [@ EXCEPT ![c] = counters[c]]]
    /\ known' = [known EXCEPT ![p] =
                    IF c = "getCount" THEN truth ELSE IF IsLast(p) THEN 0 ELSE @]
    /\ hitsThen' = [hitsThen EXCEPT ![p] =
            IF c = "misses" THEN counters.hits ELSE IF IsLast(p) THEN 0 ELSE @]
    /\ Done(p)
    /\ UNCHANGED <<counters, took, truth, skewed, begun, resets>>

ResetOrder == <<"hits", "misses", "totalGetTime", "getCount">>

ResetStart(p) ==
    /\ doing[p] = "idle"
    /\ resets < MaxResets
    /\ resets' = resets + 1
    /\ About(p, "reset", ResetOrder)
    /\ skewed' = (skewed \/ \E q \in Caller :
                    doing[q] \in {"record", "stats", "reset"})
    /\ UNCHANGED <<counters, took, loaded, truth, known, hitsThen, begun>>

Reset(p) ==
    LET c == Head(todo[p]) IN
    /\ doing[p] = "reset"
    /\ counters' = [counters EXCEPT ![c] = 0]
    /\ truth' = IF c = "getCount" THEN 0 ELSE truth
    /\ Done(p)
    /\ UNCHANGED <<took, loaded, known, hitsThen, skewed, begun, resets>>

MetricsNext ==
    \E p \in Caller :
        \/ GetStart(p)
        \/ \E d \in Durations, failed \in BOOLEAN : GetReturns(p, d, failed)
        \/ GetPanics(p)
        \/ Record(p)
        \/ StatsStart(p)
        \/ Load(p)
        \/ ResetStart(p)
        \/ Reset(p)

MetricsSpec == MetricsInit /\ [][MetricsNext]_metricsVars

-----------------------------------------------------------------------------
\* Those that have so many counters of their recording left to add to.
Left(n) == {p \in Caller : doing[p] = "record" /\ Len(todo[p]) = n}

\* Nothing is lost or recorded twice: a Get is in getCount, and its time in
\* totalGetTime, once it is a hit or a miss, and the counters differ by the
\* recordings in progress and by nothing else, when no ResetStats overlapped
\* one (metrics.go:127; the difference such a one makes stays for good).
RecordsAddUp ==
    /\ MetricsTypeOK
    /\ ~skewed /\ ~Resetting =>
        /\ counters.getCount
              = counters.hits + counters.misses + Cardinality(Left(1))
        /\ counters.totalGetTime = truth + SumFunctionOnSet(took, Left(2))

\* Whatever is recorded between its loads, Stats errs in one direction only: the
\* time it divides is at least what the Gets took that it divides by, it has
\* counted no hit or miss of a Get that is not in getCount, and not more hits
\* than there were beside the misses it has loaded, so that its hit rate is at
\* most what the counters had it then.  What it says of the cache is another
\* matter: RecordHit is called for every Get without an error, cached or not.
StatsErrsOneWay ==
    \A p \in Caller :
        doing[p] = "stats" /\ todo[p] = <<"totalGetTime">> /\ ~skewed =>
        /\ counters.totalGetTime >= known[p]
        /\ loaded[p].hits + loaded[p].misses <= loaded[p].getCount
        /\ loaded[p].hits <= hitsThen[p]
=============================================================================
