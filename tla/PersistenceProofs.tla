------------------------- MODULE PersistenceProofs -------------------------
(***************************************************************************)
(* Proofs about Persistence, for every set of workers, writers and         *)
(* callers: whichever steps of Start, Stop and Restore fail, panic or are  *)
(* cut off, no log is left open and forgotten, a running manager logs and  *)
(* saves, and a stopped one has stopped.                                   *)
(*                                                                         *)
(* Then, about RDB: for every number of files kept, every bound of the     *)
(* clock and every set of readers and cleaners, that overlapping cleanups  *)
(* spare the newest files and leave no more than they should, that a Load  *)
(* picks neither an old file nor one that is still being written, and that *)
(* RDB implements SnapshotStore.                                           *)
(***************************************************************************)
EXTENDS Persistence, RDB, FiniteSetTheorems, TLAPS

-----------------------------------------------------------------------------
(* The inductive invariant. *)

\* Stop and Restore run on a manager that is running, Start on one that is not.
RunningFits ==
    /\ op.name \in {"stop", "restore"} => running
    /\ op.name = "start" => ~running
    /\ op.name = "stop" => stopClosed

\* While a log is being closed it is the manager's, and its file is closed before
\* the manager lets it go.
ClosingInOrder ==
    /\ op.at \in {"closeLog", "clearLog"} => amWriter # None
    /\ op.at = "clearLog" => ~log[amWriter].file
    /\ op.at = "clearRunning" => amWriter = None

\* Without a log there is no writer.
NoWriterNoLog == "aof" \notin mode => amWriter = None

\* Steps at which a manager's log may be closed though nothing has failed.
LogAway == {"closeLog", "clearLog", "clearRunning", "read", "restart"}

\* What RunningIsServed says, at every step of an operation.
Served ==
    running =>
        /\ ~failed /\ "aof" \in mode /\ op.at \notin LogAway
            => amWriter # None /\ log[amWriter].file /\ ~log[amWriter].stop
        /\ ~stopClosed => \E k \in Worker : worker[k] # "none"

\* What StoppedMeansStopped says, at every step of an operation.
Stopped ==
    ~running => amWriter = None /\ (stopClosed \/ \A k \in Worker : worker[k] = "none")

\* What manager, writer, logs and workers have to do with each other.
Order ==
    /\ NoLostWriter
    /\ RunningFits
    /\ ClosingInOrder
    /\ NoWriterNoLog
    /\ Served
    /\ Stopped

IInv == TypeOK /\ Order

USE DEF manager, aof, disk, Unused, Idle, Steps

\* The invariant holds when a process begins.
LEMMA InitInv == Init => IInv
<1> SUFFICES ASSUME Init PROVE IInv
  OBVIOUS
<1>1. op = Idle /\ op.name = "none" /\ op.at = "none"
  BY DEF Init
<1>2. TypeOK
  BY DEF Init, TypeOK
<1>3. NoLostWriter
  BY DEF Init, NoLostWriter
<1>4. RunningFits /\ ClosingInOrder /\ NoWriterNoLog /\ Served /\ Stopped
  BY <1>1 DEF Init, RunningFits, ClosingInOrder, NoWriterNoLog, Served, Stopped
<1> QED BY <1>2, <1>3, <1>4 DEF IInv, Order, Order

-----------------------------------------------------------------------------
(* A process that ends leaves nothing behind but files. *)

\* It holds again in a process that begins anew, whatever files there are.
LEMMA FreshInv ==
    ASSUME TypeOK, Fresh, dump' \in {"none", "good", "torn"}, hasLog' \in BOOLEAN
    PROVE  IInv'
  BY DEF Fresh, IInv, Order, TypeOK, NoLostWriter, RunningFits, ClosingInOrder,
         NoWriterNoLog, Served, Stopped

\* So it does when a process dies in any step.
LEMMA DieInv == ASSUME TypeOK, Die PROVE IInv'
<1>1. dump' \in {"none", "good", "torn"} /\ hasLog' \in BOOLEAN
  BY DEF Die, TypeOK
<1> QED BY <1>1, FreshInv DEF Die

-----------------------------------------------------------------------------
(* What the steps on the log do to it. *)

LogState == [file : BOOLEAN, stop : BOOLEAN, sync : BOOLEAN]
OpState == [name : {"start", "stop", "restore", "save", "backup"}, at : Steps]

\* An assignment to one log keeps the types and all other logs.
LEMMA LogSet ==
    ASSUME TypeOK, NEW w \in Writer, NEW l \in LogState,
           log' = [log EXCEPT ![w] = l]
    PROVE  /\ log' \in [Writer -> LogState]
           /\ log'[w] = l
           /\ \A x \in Writer : x # w => log'[x] = log[x]
<1>1. log \in [Writer -> LogState]
  BY DEF TypeOK, LogState
<1> QED BY <1>1

\* A file that is closed.
LEMMA FileClosed ==
    ASSUME TypeOK, NEW w \in Writer, log' = [log EXCEPT ![w].file = FALSE]
    PROVE  /\ log' \in [Writer -> LogState]
           /\ ~log'[w].file /\ log'[w].stop = log[w].stop
           /\ \A x \in Writer : x # w => log'[x] = log[x]
<1> DEFINE l == [log[w] EXCEPT !.file = FALSE]
<1>1. log[w] \in LogState
  BY DEF TypeOK, LogState
<1>2. l \in LogState /\ ~l.file /\ l.stop = log[w].stop
  BY <1>1 DEF LogState
<1>3. log' = [log EXCEPT ![w] = l]
  OBVIOUS
<1> HIDE DEF l
<1> QED BY <1>2, <1>3, LogSet

\* A stop channel that is closed.
LEMMA ChannelClosed ==
    ASSUME TypeOK, NEW w \in Writer, log' = [log EXCEPT ![w].stop = TRUE]
    PROVE  /\ log' \in [Writer -> LogState]
           /\ log'[w].file = log[w].file
           /\ \A x \in Writer : x # w => log'[x] = log[x]
<1> DEFINE l == [log[w] EXCEPT !.stop = TRUE]
<1>1. log[w] \in LogState
  BY DEF TypeOK, LogState
<1>2. l \in LogState /\ l.file = log[w].file
  BY <1>1 DEF LogState
<1>3. log' = [log EXCEPT ![w] = l]
  OBVIOUS
<1> HIDE DEF l
<1> QED BY <1>2, <1>3, LogSet

\* A sync goroutine that returns.
LEMMA SyncEnded ==
    ASSUME TypeOK, NEW w \in Writer, log' = [log EXCEPT ![w].sync = FALSE]
    PROVE  /\ log' \in [Writer -> LogState]
           /\ log'[w].file = log[w].file /\ log'[w].stop = log[w].stop
           /\ \A x \in Writer : x # w => log'[x] = log[x]
<1> DEFINE l == [log[w] EXCEPT !.sync = FALSE]
<1>1. log[w] \in LogState
  BY DEF TypeOK, LogState
<1>2. l \in LogState /\ l.file = log[w].file /\ l.stop = log[w].stop
  BY <1>1 DEF LogState
<1>3. log' = [log EXCEPT ![w] = l]
  OBVIOUS
<1> HIDE DEF l
<1> QED BY <1>2, <1>3, LogSet

\* A log that is opened becomes the manager's, and no other changes.
LEMMA Opened ==
    ASSUME TypeOK, OpenLog
    PROVE  \E w \in Writer :
              /\ amWriter = None /\ amWriter' = w /\ hasLog' = TRUE
              /\ log' \in [Writer -> LogState]
              /\ log'[w].file /\ ~log'[w].stop
              /\ \A x \in Writer : x # w => log'[x] = log[x]
<1> DEFINE l == [file |-> TRUE, stop |-> FALSE, sync |-> TRUE]
<1>1. PICK w \in Writer : amWriter' = w /\ log' = [log EXCEPT ![w] = l]
  BY DEF OpenLog
<1>2. l \in LogState /\ l.file /\ ~l.stop
  BY DEF LogState
<1>3. amWriter = None /\ hasLog' = TRUE
  BY DEF OpenLog
<1> HIDE DEF l
<1> QED BY <1>1, <1>2, <1>3, LogSet

\* An operation that goes on to another step stays the one it is.
LEMMA Gone ==
    ASSUME TypeOK, op # Idle, NEW s \in Steps, Go(s)
    PROVE  op' \in OpState /\ op'.name = op.name /\ op'.at = s
<1>1. op \in OpState
  BY DEF TypeOK, OpState
<1>2. op' = [op EXCEPT !.at = s]
  BY DEF Go
<1> QED BY <1>1, <1>2 DEF OpState

-----------------------------------------------------------------------------
(* Every step keeps the types. *)

LEMMA TypeStep == ASSUME IInv, Next PROVE TypeOK'
<1>0. TypeOK /\ (op.at \in {"closeLog", "clearLog"} => amWriter \in Writer)
  BY DEF IInv, Order, ClosingInOrder, TypeOK
<1>1. CASE StartBegin
  BY <1>0, <1>1 DEF TypeOK, StartBegin, Begin
<1>2. CASE Load
  BY <1>0, <1>2 DEF TypeOK, Load, At, Go
<1>3. CASE ReplayFails
  BY <1>0, <1>3 DEF TypeOK, ReplayFails, At
<1>4. CASE StartReturn
  <2>1. amWriter' \in Writer \cup {None} /\ log' \in [Writer -> LogState] /\ hasLog' \in BOOLEAN
    BY <1>0, <1>4, Opened DEF StartReturn, NoLog, TypeOK, LogState
  <2>2. worker' \in [Worker -> {"none", "select", "autoSave", "saving"}]
    BY <1>0, <1>4 DEF StartReturn, Spawn, TypeOK
  <2> QED BY <1>0, <1>4, <2>1, <2>2 DEF TypeOK, StartReturn, LogState
<1>5. CASE StartFails
  BY <1>0, <1>5 DEF TypeOK, StartFails, At
<1>6. CASE StopBegin
  BY <1>0, <1>6 DEF TypeOK, StopBegin, Begin
<1>7. CASE Save
  BY <1>0, <1>7 DEF TypeOK, Save, AfterSave, At, Go, Resume
<1>8. CASE SaveFails
  BY <1>0, <1>8 DEF TypeOK, SaveFails, Resume
<1>9. CASE StopLogFails
  BY <1>0, <1>9 DEF TypeOK, StopLogFails, Fail
<1>10. CASE StopSync
  <2>1. op # Idle /\ amWriter \in Writer
    BY <1>0, <1>10 DEF StopSync, TypeOK
  <2>2. op' \in OpState
    BY <1>0, <1>10, <2>1, Gone DEF StopSync
  <2>3. log' \in [Writer -> LogState]
    BY <1>0, <1>10, <2>1, ChannelClosed DEF StopSync
  <2> QED BY <1>0, <1>10, <2>2, <2>3 DEF TypeOK, LogState, OpState, StopSync
<1>11. CASE CloseLog
  <2>1. op # Idle /\ amWriter \in Writer
    BY <1>0, <1>11 DEF CloseLog
  <2>2. op' \in OpState
    BY <1>0, <1>11, <2>1, Gone DEF CloseLog
  <2>3. log' \in [Writer -> LogState]
    BY <1>0, <1>11, <2>1, FileClosed DEF CloseLog
  <2> QED BY <1>0, <1>11, <2>2, <2>3 DEF TypeOK, LogState, OpState, CloseLog
<1>12. CASE CloseLogFails
  BY <1>0, <1>12, FileClosed DEF TypeOK, LogState, CloseLogFails, Fail
<1>13. CASE ClearLog
  BY <1>0, <1>13 DEF TypeOK, ClearLog, Go
<1>14. CASE StopReturn
  BY <1>0, <1>14 DEF TypeOK, StopReturn, At
<1>15. CASE ManualSave
  BY <1>0, <1>15 DEF TypeOK, ManualSave, Begin
<1>16. CASE Backup
  BY <1>0, <1>16 DEF TypeOK, Backup, Begin
<1>17. CASE RestoreBegin
  BY <1>0, <1>17 DEF TypeOK, RestoreBegin, Begin
<1>18. CASE RestoreLoad
  BY <1>0, <1>18 DEF TypeOK, RestoreLoad, At, Go
<1>19. CASE RestoreReturn
  <2>1. amWriter' \in Writer \cup {None} /\ log' \in [Writer -> LogState] /\ hasLog' \in BOOLEAN
    BY <1>0, <1>19, Opened DEF RestoreReturn, NoLog, TypeOK, LogState
  <2> QED BY <1>0, <1>19, <2>1 DEF TypeOK, RestoreReturn, LogState
<1>20. CASE RestoreFails
  BY <1>0, <1>20 DEF TypeOK, RestoreFails, Fail
<1>21. CASE \E k \in Worker : WorkerTick(k) \/ AutoSave(k) \/ NoAutoSave(k) \/ WorkerStop(k)
  <2>1. PICK k \in Worker : WorkerTick(k) \/ AutoSave(k) \/ NoAutoSave(k) \/ WorkerStop(k)
    BY <1>21
  <2>2. worker' \in [Worker -> {"none", "select", "autoSave", "saving"}]
    BY <1>0, <2>1 DEF TypeOK, WorkerTick, AutoSave, NoAutoSave, WorkerStop
  <2>3. op' \in [name : {"start", "stop", "restore", "save", "backup"}, at : Steps] \cup {Idle}
    BY <1>0, <2>1 DEF TypeOK, WorkerTick, AutoSave, NoAutoSave, WorkerStop, Begin
  <2>4. UNCHANGED <<manager, aof, caller, disk, failed>>
    BY <2>1 DEF WorkerTick, AutoSave, NoAutoSave, WorkerStop
  <2>5. /\ mode' \subseteq {"rdb", "aof"} /\ running' \in BOOLEAN /\ stopClosed' \in BOOLEAN
        /\ failed' \in BOOLEAN
    BY <1>0, <2>4 DEF TypeOK, manager
  <2>6. /\ amWriter' \in Writer \cup {None}
        /\ log' \in [Writer -> [file : BOOLEAN, stop : BOOLEAN, sync : BOOLEAN]]
    BY <1>0, <2>4 DEF TypeOK, aof
  <2>7. /\ caller' \in [Caller -> {"idle", "counted", "tested"}]
        /\ dump' \in {"none", "good", "torn"} /\ hasLog' \in BOOLEAN
    BY <1>0, <2>4 DEF TypeOK, disk
  <2> QED BY <2>2, <2>3, <2>5, <2>6, <2>7 DEF TypeOK
<1>22. CASE \E w \in Writer : SyncStop(w)
  <2>1. PICK w \in Writer : SyncStop(w)
    BY <1>22
  <2>2. log' = [log EXCEPT ![w].sync = FALSE]
    BY <2>1 DEF SyncStop
  <2>3. log' \in [Writer -> [file : BOOLEAN, stop : BOOLEAN, sync : BOOLEAN]]
    BY <1>0, <2>2 DEF TypeOK
  <2> QED BY <1>0, <2>1, <2>3 DEF TypeOK, SyncStop
<1>23. CASE \E c \in Caller : RecordChange(c) \/ TestWriter(c) \/ WriteEntry(c)
  <2>1. PICK c \in Caller : RecordChange(c) \/ TestWriter(c) \/ WriteEntry(c)
    BY <1>23
  <2>2. caller' \in [Caller -> {"idle", "counted", "tested"}]
    BY <1>0, <2>1 DEF TypeOK, RecordChange, TestWriter, WriteEntry
  <2>3. UNCHANGED <<manager, op, worker, aof, disk, failed>>
    BY <2>1 DEF RecordChange, TestWriter, WriteEntry
  <2> QED BY <1>0, <2>2, <2>3 DEF TypeOK, manager, aof, disk
<1>24. CASE Die \/ StopPanic
  BY <1>24, <1>0, DieInv DEF StopPanic, IInv
<1>25. CASE StopSyncPanic
  BY <1>25, <1>0, DieInv DEF TypeOK, StopSyncPanic, Fail, IInv
<1>26. CASE \E c \in Caller : WritePanic(c)
  BY <1>26, <1>0, DieInv DEF TypeOK, WritePanic, IInv
<1> QED
  BY <1>1, <1>2, <1>3, <1>4, <1>5, <1>6, <1>7, <1>8, <1>9, <1>10, <1>11, <1>12,
     <1>13, <1>14, <1>15, <1>16, <1>17, <1>18, <1>19, <1>20, <1>21, <1>22, <1>23,
     <1>24, <1>25, <1>26 DEF Next

-----------------------------------------------------------------------------
(* Every step keeps the invariant. *)

LEMMA InvStep == ASSUME IInv, Next PROVE Order'
<1> USE DEF IInv, Order, RunningFits, ClosingInOrder, NoWriterNoLog, Served,
   Stopped, NoLostWriter, LogAway
<1>1. CASE StartBegin
  BY <1>1 DEF StartBegin, Begin
<1>2. CASE Load
  <2>1. op.name = "start" /\ op # Idle /\ op.at = "load"
    BY <1>2 DEF Load, At
  <2>2. op'.name = "start" /\ op'.at \in {"finishStart", "replaying"}
    BY <1>2, <2>1, Gone DEF Load
  <2> QED BY <1>2, <2>1, <2>2 DEF Load
<1>3. CASE ReplayFails
  BY <1>3 DEF ReplayFails, At
<1>4. CASE StartReturn
  <2>1. running' /\ op' = Idle /\ \E k \in Worker : worker'[k] # "none"
    BY <1>4 DEF StartReturn, Spawn, TypeOK
  <2>2. CASE OpenLog
    <3>1. PICK w \in Writer :
            /\ amWriter = None /\ amWriter' = w
            /\ log'[w].file /\ ~log'[w].stop
            /\ \A x \in Writer : x # w => log'[x] = log[x]
      BY <2>2, Opened
    <3>2. \A x \in Writer : ~log[x].file
      BY <3>1, PersistenceAssumption
    <3>3. NoLostWriter' /\ RunningFits' /\ Stopped'
      BY <1>4, <2>1, <3>1, <3>2 DEF StartReturn
    <3>4. ClosingInOrder' /\ Served'
      BY <1>4, <2>1, <3>1, PersistenceAssumption DEF StartReturn
    <3>5. NoWriterNoLog'
      BY <1>4, <2>2 DEF StartReturn, OpenLog
    <3> QED BY <3>3, <3>4, <3>5
  <2>3. CASE NoLog
    BY <1>4, <2>1, <2>3 DEF StartReturn, NoLog
  <2> QED BY <1>4, <2>2, <2>3 DEF StartReturn
<1>5. CASE StartFails
  BY <1>5 DEF StartFails, At
<1>6. CASE StopBegin
  BY <1>6 DEF StopBegin, Begin
<1>7. CASE Save
  <2>1. op.at = "save" /\ op # Idle
    BY <1>7 DEF Save
  <2>2. CASE op.name # "stop"
    <3>1. op' = Idle
      BY <1>7, <2>2 DEF Save, AfterSave, At
    <3> QED BY <1>7, <2>1, <3>1 DEF Save, Resume
  <2>3. CASE op.name = "stop"
    <3>1. op'.name = "stop" /\ op'.at = IF "aof" \in mode THEN "stopLog" ELSE "clearRunning"
      BY <1>7, <2>1, <2>3, Gone DEF Save, AfterSave, At
    <3> QED BY <1>7, <2>1, <2>3, <3>1 DEF Save, Resume
  <2> QED BY <2>2, <2>3
<1>8. CASE SaveFails
  BY <1>8 DEF SaveFails, Resume
<1>9. CASE StopLogFails
  BY <1>9 DEF StopLogFails, Fail
<1>10. CASE StopSync
  BY <1>10, ChannelClosed DEF TypeOK, StopSync, Go
<1>11. CASE CloseLog
  BY <1>11, FileClosed DEF TypeOK, CloseLog, Go
<1>12. CASE CloseLogFails
  BY <1>12, FileClosed DEF TypeOK, CloseLogFails, Fail
<1>13. CASE ClearLog
  BY <1>13 DEF ClearLog, Go
<1>14. CASE StopReturn
  BY <1>14 DEF StopReturn, At
<1>15. CASE ManualSave
  BY <1>15 DEF ManualSave, Begin
<1>16. CASE Backup
  BY <1>16 DEF Backup, Begin
<1>17. CASE RestoreBegin
  BY <1>17 DEF RestoreBegin, Begin
<1>18. CASE RestoreLoad
  BY <1>18 DEF RestoreLoad, At, Go
<1>19. CASE RestoreReturn
  <2>1. op' = Idle /\ running
    BY <1>19 DEF RestoreReturn, At
  <2>2. CASE OpenLog
    <3>1. PICK w \in Writer :
            /\ amWriter = None /\ amWriter' = w
            /\ log'[w].file /\ ~log'[w].stop
            /\ \A x \in Writer : x # w => log'[x] = log[x]
      BY <2>2, Opened
    <3>2. \A x \in Writer : ~log[x].file
      BY <3>1, PersistenceAssumption
    <3>3. NoLostWriter' /\ RunningFits' /\ Stopped'
      BY <1>19, <2>1, <3>1, <3>2 DEF RestoreReturn
    <3>4. ClosingInOrder' /\ Served'
      BY <1>19, <2>1, <3>1, PersistenceAssumption DEF RestoreReturn
    <3>5. NoWriterNoLog'
      BY <1>19, <2>2 DEF RestoreReturn, OpenLog
    <3> QED BY <3>3, <3>4, <3>5
  <2>3. CASE NoLog
    BY <1>19, <2>1, <2>3 DEF RestoreReturn, NoLog
  <2> QED BY <1>19, <2>2, <2>3 DEF RestoreReturn
<1>20. CASE RestoreFails
  BY <1>20 DEF RestoreFails, Fail
<1>21. CASE \E k \in Worker : WorkerTick(k) \/ AutoSave(k) \/ NoAutoSave(k) \/ WorkerStop(k)
  <2>1. PICK k \in Worker : WorkerTick(k) \/ AutoSave(k) \/ NoAutoSave(k) \/ WorkerStop(k)
    BY <1>21
  <2>2. \/ op' = op
        \/ op = Idle /\ op' = [name |-> "save", at |-> "save"]
    BY <2>1 DEF WorkerTick, AutoSave, NoAutoSave, WorkerStop, Begin
  <2>3. \A x \in Worker : x # k => worker'[x] = worker[x]
    BY <2>1 DEF TypeOK, WorkerTick, AutoSave, NoAutoSave, WorkerStop
  <2>4. worker[k] # "none" /\ (worker'[k] # "none" \/ stopClosed)
    BY <2>1 DEF TypeOK, WorkerTick, AutoSave, NoAutoSave, WorkerStop
  <2>5. UNCHANGED <<manager, aof, failed>>
    BY <2>1 DEF WorkerTick, AutoSave, NoAutoSave, WorkerStop
  <2> QED BY <2>2, <2>3, <2>4, <2>5
<1>22. CASE \E w \in Writer : SyncStop(w)
  BY <1>22, SyncEnded DEF TypeOK, SyncStop
<1>23. CASE \E c \in Caller : RecordChange(c) \/ TestWriter(c) \/ WriteEntry(c)
  BY <1>23 DEF RecordChange, TestWriter, WriteEntry
<1>24. CASE Die \/ StopPanic
  BY <1>24, DieInv DEF StopPanic, IInv
<1>25. CASE StopSyncPanic
  BY <1>25, DieInv DEF StopSyncPanic, Fail, IInv
<1>26. CASE \E c \in Caller : WritePanic(c)
  BY <1>26, DieInv DEF WritePanic, IInv
<1> QED
  BY <1>1, <1>2, <1>3, <1>4, <1>5, <1>6, <1>7, <1>8, <1>9, <1>10, <1>11, <1>12,
     <1>13, <1>14, <1>15, <1>16, <1>17, <1>18, <1>19, <1>20, <1>21, <1>22, <1>23,
     <1>24, <1>25, <1>26 DEF Next

-----------------------------------------------------------------------------
(* The theorems. *)

\* The invariant is inductive.
LEMMA Inductive == Spec => []IInv
<1>1. IInv /\ [Next]_vars => IInv'
  <2> SUFFICES ASSUME IInv, [Next]_vars PROVE IInv'
    OBVIOUS
  <2>1. CASE Next
    BY <2>1, TypeStep, InvStep DEF IInv
  <2>2. CASE UNCHANGED vars
    BY <2>2 DEF vars, IInv, Order, TypeOK, NoLostWriter, RunningFits, ClosingInOrder,
                NoWriterNoLog, Served, Stopped
  <2> QED BY <2>1, <2>2
<1> QED BY InitInv, <1>1, PTL DEF Spec

\* Every reachable state has the types of TypeOK, with any number of workers,
\* writers and callers.
THEOREM TypeCorrect == Spec => []TypeOK
<1>1. IInv => TypeOK
  BY DEF IInv
<1> QED BY Inductive, <1>1, PTL

\* No log file stays open that the manager has lost hold of, whichever step of
\* Start, Stop or Restore gave up (manager.go:404).
THEOREM NoWriterLost == Spec => []NoLostWriter
<1>1. IInv => NoLostWriter
  BY DEF IInv, Order
<1> QED BY Inductive, <1>1, PTL

\* A running manager that is in no operation writes to an open log and has a
\* worker, under the conditions of RunningIsServed.
THEOREM RunningServed == Spec => []RunningIsServed
<1>1. IInv => RunningIsServed
  BY DEF IInv, Order, Served, RunningIsServed, LogAway
<1> QED BY Inductive, <1>1, PTL

\* A manager that is not running has let its log go and told its workers to end.
THEOREM StoppedStays == Spec => []StoppedMeansStopped
<1>1. IInv => StoppedMeansStopped
  BY DEF IInv, Order, Stopped, StoppedMeansStopped
<1> QED BY Inductive, <1>1, PTL

-----------------------------------------------------------------------------
(* The snapshots, RDB.                                                     *)

(* Finite sets of naturals. *)

\* A set of naturals that is finite and not empty has a greatest element: the one
\* above which the fewest elements lie.
LEMMA MaxExists ==
    ASSUME NEW S \in SUBSET Nat, IsFiniteSet(S), S # {}
    PROVE  Max(S) \in S /\ \A y \in S : Max(S) >= y
<1> DEFINE Above(x) == {y \in S : y > x}
           T == {Above(x) : x \in S}
           R == StrictSubsetOrdering(S)
<1>1. IsWellFoundedOn(R, FiniteSubsetsOf(S))
  BY FS_StrictSubsetOrderingWellFounded
<1>2. T \subseteq FiniteSubsetsOf(S)
  BY FS_Subset DEF FiniteSubsetsOf
<1>3. T # {}
  OBVIOUS
<1>4. PICK A \in T : \A B \in T : ~(<<B, A>> \in R)
  <2> HIDE DEF R, T
  <2> QED BY <1>1, <1>2, <1>3, WFMin
<1>5. PICK x \in S : A = Above(x)
  BY <1>4
<1>6. ASSUME NEW y \in S, y > x
      PROVE  FALSE
  <2>1. Above(y) \subseteq Above(x) /\ y \in Above(x) /\ y \notin Above(y)
    <3>1. Above(y) \subseteq Above(x)
      <4> SUFFICES ASSUME NEW u \in S, u > y
                   PROVE  u > x
        OBVIOUS
      <4> QED BY <1>6
    <3>2. y \in Above(x)
      BY <1>6
    <3>3. ~(y > y)
      OBVIOUS
    <3> QED BY <3>1, <3>2, <3>3
  <2>2. <<Above(y), Above(x)>> \in R
    BY <2>1 DEF StrictSubsetOrdering
  <2>3. Above(y) \in T
    OBVIOUS
  <2> QED BY <1>4, <1>5, <2>2, <2>3
<1>7. \A y \in S : x >= y
  BY <1>6
<1> QED BY <1>5, <1>7 DEF Max

\* The same downwards.
LEMMA MinExists ==
    ASSUME NEW S \in SUBSET Nat, IsFiniteSet(S), S # {}
    PROVE  Min(S) \in S /\ \A y \in S : Min(S) =< y
<1> DEFINE Below(x) == {y \in S : y < x}
           T == {Below(x) : x \in S}
           R == StrictSubsetOrdering(S)
<1>1. IsWellFoundedOn(R, FiniteSubsetsOf(S))
  BY FS_StrictSubsetOrderingWellFounded
<1>2. T \subseteq FiniteSubsetsOf(S)
  BY FS_Subset DEF FiniteSubsetsOf
<1>3. T # {}
  OBVIOUS
<1>4. PICK A \in T : \A B \in T : ~(<<B, A>> \in R)
  <2> HIDE DEF R, T
  <2> QED BY <1>1, <1>2, <1>3, WFMin
<1>5. PICK x \in S : A = Below(x)
  BY <1>4
<1>6. ASSUME NEW y \in S, y < x
      PROVE  FALSE
  <2>1. Below(y) \subseteq Below(x) /\ y \in Below(x) /\ y \notin Below(y)
    <3>1. Below(y) \subseteq Below(x)
      <4> SUFFICES ASSUME NEW u \in S, u < y
                   PROVE  u < x
        OBVIOUS
      <4> QED BY <1>6
    <3>2. y \in Below(x)
      BY <1>6
    <3>3. ~(y < y)
      OBVIOUS
    <3> QED BY <3>1, <3>2, <3>3
  <2>2. <<Below(y), Below(x)>> \in R
    BY <2>1 DEF StrictSubsetOrdering
  <2>3. Below(y) \in T
    OBVIOUS
  <2> QED BY <1>4, <1>5, <2>2, <2>3
<1>7. \A y \in S : x =< y
  BY <1>6
<1> QED BY <1>5, <1>7 DEF Min

\* There are finitely many snapshots.
LEMMA FiniteTime == ASSUME NEW S \in SUBSET Time PROVE IsFiniteSet(S)
<1>1. 0 \in Int /\ MaxTime \in Int
  BY RDBAssumption
<1>2. IsFiniteSet(Time)
  BY <1>1, FS_Interval DEF Time
<1> QED BY <1>2, FS_Subset

-----------------------------------------------------------------------------
(* The inductive invariant. *)

\* t is the newest snapshot by name.
Top(t) == t \in Dumps /\ \A d \in Dumps : d <= t

\* A cleanup at work has files to remove, one that is not has none.
CleanersListed ==
    \A c \in Cleaner : cleaner[c].files # {} <=> cleaner[c].at = "removing"

\* Save and Load exclude each other.
SaveExcludesLoad == saver.at # "idle" => \A r \in Reader : reader[r] = NoFile

\* What a Load has picked is the newest snapshot, until the Load has read it.
PicksAreTop == \A r \in Reader : reader[r] # NoFile => Top(reader[r])

\* Unless the clock was set back, no name lies in the future, a Save in progress
\* writes the greatest name, and the newest snapshot is a recent one.
NamesInOrder ==
    ~setBack =>
        /\ \A d \in Dumps : d <= clock
        /\ saver.at # "idle" => saver.file <= clock
        /\ saver.at = "writing" => \A d \in Dumps : d <= saver.file
        /\ saver.at = "renamed" => Top(saver.file)
        /\ recent # {} => \E t \in recent : Top(t)

\* A torn file is one that a Save is about to complete, or a damaged one.
TornKnown ==
    \A t \in Time : snapshot[t] = "torn" =>
        t \in damaged \/ (saver.at = "renamed" /\ saver.file = t)

\* Unless a cleanup failed, Keep files are there at most, or will be when some
\* cleanup is through.
CleanupComes ==
    ~untidy =>
        \/ Cardinality(Dumps) <= Keep
        \/ \E c \in Cleaner : cleaner[c].at = "new"
        \/ \E c \in Cleaner : /\ cleaner[c].at = "removing"
                              /\ Cardinality(Dumps \ cleaner[c].files) <= Keep

RDBInv ==
    /\ RDBTypeOK
    /\ CleanersListed
    /\ KeepsNewest
    /\ SaveExcludesLoad
    /\ PicksAreTop
    /\ NamesInOrder
    /\ TornKnown
    /\ CleanupComes

\* The newest snapshot is the one Newest picks.
LEMMA TopIsNewest ==
    ASSUME RDBTypeOK, NEW t, Top(t)
    PROVE  t = Newest
<1>1. Dumps \in SUBSET Nat /\ IsFiniteSet(Dumps) /\ Dumps # {}
  BY FiniteTime DEF Top, Dumps, Time
<1>2. Newest \in Dumps /\ \A y \in Dumps : Newest >= y
  BY <1>1, MaxExists DEF Newest
<1> QED BY <1>1, <1>2 DEF Top

\* What Newest picks is the newest snapshot.
LEMMA NewestIsTop ==
    ASSUME RDBTypeOK, Dumps # {}
    PROVE  Top(Newest)
<1>1. Dumps \in SUBSET Nat /\ IsFiniteSet(Dumps)
  BY FiniteTime DEF Dumps, Time
<1>2. Newest \in Dumps /\ \A y \in Dumps : Newest >= y
  BY <1>1, MaxExists DEF Newest
<1> QED BY <1>1, <1>2 DEF Top

\* The file a cleanup removes next is one it has listed.
LEMMA RemovedIsListed ==
    ASSUME RDBTypeOK, CleanersListed, NEW c \in Cleaner, cleaner[c].at = "removing"
    PROVE  Min(cleaner[c].files) \in cleaner[c].files
<1>1. cleaner[c].files \in SUBSET Time /\ cleaner[c].files # {}
  BY DEF RDBTypeOK, CleanersListed
<1>2. cleaner[c].files \in SUBSET Nat
  BY <1>1 DEF Time
<1> QED BY <1>1, <1>2, FiniteTime, MinExists

\* No cleanup has listed the newest snapshot.
LEMMA TopIsSpared ==
    ASSUME RDBTypeOK, KeepsNewest, NEW t, Top(t), NEW c \in Cleaner
    PROVE  t \notin cleaner[c].files
<1> SUFFICES ASSUME t \in cleaner[c].files
             PROVE  FALSE
  OBVIOUS
<1>1. {u \in Dumps : u > t} = {}
  BY DEF Top, Dumps, Time
<1>2. Cardinality({u \in Dumps : u > t}) >= Keep
  BY DEF KeepsNewest
<1> QED BY <1>1, <1>2, FS_EmptySet, RDBAssumption

-----------------------------------------------------------------------------
(* What the actions do to the directory. *)

\* Save puts its file there, whether another of that name was there or not.
LEMMA RenameAdds ==
    ASSUME RDBTypeOK, SaveRename
    PROVE  Dumps' = Dumps \cup {saver.file}
  BY DEF RDBTypeOK, SaveRename, Dumps

\* The deferred Close only fills in what is there.
LEMMA CloseKeeps ==
    ASSUME RDBTypeOK, NEW written \in BOOLEAN, SaveClose(written)
    PROVE  Dumps' = Dumps
  BY DEF RDBTypeOK, SaveClose, Dumps

\* A removal takes away at most one file, which the cleanup had listed.
LEMMA RemoveTakes ==
    ASSUME RDBTypeOK, CleanersListed, NEW c \in Cleaner, NEW removed \in BOOLEAN,
           CleanRemove(c, removed)
    PROVE  Dumps' = Dumps \/ \E t \in cleaner[c].files : Dumps' = Dumps \ {t}
<1> DEFINE t == Min(cleaner[c].files)
<1>1. t \in cleaner[c].files
  BY RemovedIsListed DEF CleanRemove
<1>2. snapshot' = snapshot \/ snapshot' = [snapshot EXCEPT ![t] = "none"]
  BY DEF CleanRemove
<1> HIDE DEF t
<1>3. CASE snapshot' = snapshot
  BY <1>3 DEF Dumps
<1>4. CASE snapshot' = [snapshot EXCEPT ![t] = "none"]
  <2>1. t \in Time
    BY <1>1 DEF RDBTypeOK
  <2>2. Dumps' = Dumps \ {t}
    BY <1>4, <2>1 DEF RDBTypeOK, Dumps
  <2> QED BY <1>1, <2>2
<1> QED BY <1>2, <1>3, <1>4

\* The newest snapshot stays the newest while cleanups remove files.
LEMMA RemoveKeepsTop ==
    ASSUME RDBTypeOK, CleanersListed, KeepsNewest, NEW c \in Cleaner,
           NEW removed \in BOOLEAN, CleanRemove(c, removed), NEW t, Top(t)
    PROVE  Top(t)'
  BY RemoveTakes, TopIsSpared DEF Top

-----------------------------------------------------------------------------
(* Each part of the invariant is kept by every step. *)

\* What a cleanup has left to do is a job.
LEMMA RemainingType ==
    ASSUME NEW files \in SUBSET Time
    PROVE  Remaining(files) \in [at : {"idle", "new", "removing"}, files : SUBSET Time]
  BY DEF Remaining, NotCleaning

\* Type correctness of Save, Load and cleanupOldFiles.
LEMMA RDBTypeStep == RDBTypeOK /\ CleanersListed /\ [RDBNext]_rdbVars => RDBTypeOK'
<1> SUFFICES ASSUME RDBTypeOK, CleanersListed, [RDBNext]_rdbVars
             PROVE  RDBTypeOK'
  OBVIOUS
<1> USE DEF RDBTypeOK
<1>1. CASE SaveBegin
  BY <1>1 DEF SaveBegin
<1>2. CASE SaveGivesUp
  BY <1>2 DEF SaveGivesUp
<1>3. CASE SaveRename
  <2>1. PICK c \in Cleaner :
            cleaner' = [cleaner EXCEPT ![c] = [at |-> "new", files |-> {}]]
    BY <1>3 DEF SaveRename
  <2>2. snapshot' \in [Time -> {"none", "torn", "gzip", "plain"}]
    BY <1>3 DEF SaveRename
  <2> QED BY <1>3, <2>1, <2>2 DEF SaveRename
<1>4. ASSUME NEW written \in BOOLEAN, SaveClose(written)
      PROVE  RDBTypeOK'
  BY <1>4 DEF SaveClose
<1>5. ASSUME NEW r \in Reader, LoadPick(r)
      PROVE  RDBTypeOK'
  <2>1. Newest \in Time
    BY <1>5, NewestIsTop DEF LoadPick, Top, Dumps
  <2> QED BY <1>5, <2>1 DEF LoadPick
<1>6. ASSUME NEW r \in Reader, LoadRead(r)
      PROVE  RDBTypeOK'
  BY <1>6 DEF LoadRead
<1>7. ASSUME NEW c \in Cleaner, CleanList(c)
      PROVE  RDBTypeOK'
  <2>1. Surplus \subseteq Time
    BY DEF Surplus, Dumps
  <2>2. cleaner' = [cleaner EXCEPT ![c] = Remaining(Surplus)]
    BY <1>7 DEF CleanList
  <2>3. cleaner' \in [Cleaner -> [at : {"idle", "new", "removing"}, files : SUBSET Time]]
    BY <2>1, <2>2, RemainingType
  <2> QED BY <1>7, <2>3 DEF CleanList
<1>8. ASSUME NEW c \in Cleaner, NEW removed \in BOOLEAN, CleanRemove(c, removed)
      PROVE  RDBTypeOK'
  <2> DEFINE t == Min(cleaner[c].files)
  <2>1. t \in Time
    BY <1>8, RemovedIsListed DEF CleanRemove
  <2>2. snapshot' \in [Time -> {"none", "torn", "gzip", "plain"}]
    BY <1>8, <2>1 DEF CleanRemove
  <2>3. cleaner' \in [Cleaner -> [at : {"idle", "new", "removing"}, files : SUBSET Time]]
    <3>1. cleaner' = [cleaner EXCEPT ![c] = Remaining(cleaner[c].files \ {t})]
      BY <1>8 DEF CleanRemove
    <3>2. cleaner[c].files \ {t} \in SUBSET Time
      OBVIOUS
    <3> QED BY <3>1, <3>2, RemainingType
  <2>4. untidy' \in BOOLEAN
    BY <1>8 DEF CleanRemove
  <2> QED BY <1>8, <2>2, <2>3, <2>4 DEF CleanRemove
<1>9. ASSUME NEW enable \in Compression, EnableCompression(enable)
      PROVE  RDBTypeOK'
  BY <1>9 DEF EnableCompression
<1>10. CASE Crash
  BY <1>10 DEF Crash, NotCleaning
<1>11. CASE Tick
  BY <1>11, RDBAssumption DEF Tick, Time
<1>12. CASE SetBack
  BY <1>12, RDBAssumption DEF SetBack, Time
<1>13. CASE UNCHANGED rdbVars
  BY <1>13 DEF rdbVars
<1> QED BY <1>1, <1>2, <1>3, <1>4, <1>5, <1>6, <1>7, <1>8, <1>9, <1>10, <1>11, <1>12,
           <1>13 DEF RDBNext

\* The two fields of a cleanup go together.
LEMMA ListedStep == RDBTypeOK /\ CleanersListed /\ [RDBNext]_rdbVars => CleanersListed'
<1> SUFFICES ASSUME RDBTypeOK, CleanersListed, [RDBNext]_rdbVars
             PROVE  CleanersListed'
  OBVIOUS
<1> USE DEF RDBTypeOK, CleanersListed
<1>1. CASE UNCHANGED cleaner
  BY <1>1
<1>2. CASE SaveRename
  BY <1>2 DEF SaveRename, NotCleaning
<1>3. ASSUME NEW c \in Cleaner, CleanList(c)
      PROVE  CleanersListed'
  BY <1>3 DEF CleanList, Remaining, NotCleaning
<1>4. ASSUME NEW c \in Cleaner, NEW removed \in BOOLEAN, CleanRemove(c, removed)
      PROVE  CleanersListed'
  <2>1. cleaner' = [cleaner EXCEPT ![c] =
                       Remaining(cleaner[c].files \ {Min(cleaner[c].files)})]
    BY <1>4 DEF CleanRemove
  <2> QED BY <2>1 DEF Remaining, NotCleaning
<1>5. CASE Crash
  BY <1>5 DEF Crash, NotCleaning
<1> QED BY <1>1, <1>2, <1>3, <1>4, <1>5
        DEF RDBNext, SaveBegin, SaveGivesUp, SaveClose, LoadPick, LoadRead, EnableCompression,
            Tick, SetBack, rdbVars

\* More snapshots, or one fewer among those that are not newer, leave as many newer.
LEMMA NewerKept ==
    ASSUME RDBTypeOK, RDBTypeOK', NEW t, KeepsNewest, NEW c \in Cleaner, t \in cleaner[c].files,
           \/ Dumps \subseteq Dumps'
           \/ \E d \in Cleaner : \E x \in cleaner[d].files : Dumps' = Dumps \ {x}
    PROVE  Cardinality({u \in Dumps' : u > t}) >= Keep
<1> DEFINE Newer(s) == {u \in Dumps : u > s}
           NewerThen == {u \in Dumps' : u > t}
<1>1. IsFiniteSet(NewerThen)
  BY FiniteTime DEF Dumps
<1>2. t \in Nat /\ Cardinality(Newer(t)) >= Keep
  BY DEF KeepsNewest, RDBTypeOK, Time
<1>3. Cardinality(NewerThen) \in Nat
  BY <1>1, FS_CardinalityType
<1>4. \A s : s \in Nat => IsFiniteSet(Newer(s)) /\ Cardinality(Newer(s)) \in Nat
  BY FiniteTime, FS_CardinalityType DEF Dumps
<1>5. CASE Dumps \subseteq Dumps'
  <2>1. Newer(t) \subseteq NewerThen
    BY <1>5
  <2>2. Cardinality(Newer(t)) <= Cardinality(NewerThen)
    BY <1>1, <2>1, FS_Subset
  <2> QED BY <1>2, <1>3, <1>4, <2>2, RDBAssumption
<1>6. ASSUME NEW d \in Cleaner, NEW x \in cleaner[d].files, Dumps' = Dumps \ {x}
      PROVE  Cardinality(NewerThen) >= Keep
  <2>1. x \in Nat /\ Cardinality(Newer(x)) >= Keep
    BY DEF KeepsNewest, RDBTypeOK, Time
  <2>2. CASE x > t
    <3>1. Newer(x) \subseteq NewerThen
      <4> SUFFICES ASSUME NEW u \in Dumps, u > x
                   PROVE  u \in NewerThen
        OBVIOUS
      <4>1. u \in Nat
        BY DEF Dumps, Time
      <4> QED BY <1>2, <1>6, <2>1, <2>2, <4>1
    <3>2. Cardinality(Newer(x)) <= Cardinality(NewerThen)
      BY <1>1, <3>1, FS_Subset
    <3>3. Cardinality(Newer(x)) \in Nat /\ Cardinality(Newer(x)) >= Keep /\ Keep \in Nat
      BY <1>4, <2>1, RDBAssumption
    <3> HIDE DEF Newer, NewerThen
    <3> QED BY <1>3, <3>2, <3>3
  <2>3. CASE ~(x > t)
    <3>1. NewerThen = Newer(t)
      BY <1>6, <2>3
    <3> QED BY <1>2, <3>1
  <2> QED BY <2>2, <2>3
<1> QED BY <1>5, <1>6

\* A step of any action leaves the newest files out of what is to be removed.
LEMMA KeepsStep == RDBTypeOK /\ CleanersListed /\ KeepsNewest /\ [RDBNext]_rdbVars => KeepsNewest'
<1> SUFFICES ASSUME RDBTypeOK, CleanersListed, KeepsNewest, [RDBNext]_rdbVars
             PROVE  KeepsNewest'
  OBVIOUS
<1>1. RDBTypeOK'
  BY RDBTypeStep
<1>2. CASE /\ Dumps \subseteq Dumps'
           /\ \A c \in Cleaner : cleaner'[c].files \subseteq cleaner[c].files
  <2> SUFFICES ASSUME NEW c \in Cleaner, NEW t \in cleaner'[c].files
               PROVE  Cardinality({u \in Dumps' : u > t}) >= Keep
    BY DEF KeepsNewest
  <2>1. t \in cleaner[c].files
    BY <1>2
  <2> QED BY <1>1, <1>2, <2>1, NewerKept
<1>3. CASE SaveRename
  <2>1. Dumps \subseteq Dumps'
    BY <1>3, RenameAdds
  <2>2. \A c \in Cleaner : cleaner'[c].files \subseteq cleaner[c].files
    BY <1>3 DEF SaveRename, RDBTypeOK
  <2> QED BY <1>2, <2>1, <2>2
<1>4. ASSUME NEW written \in BOOLEAN, SaveClose(written)
      PROVE  KeepsNewest'
  <2>1. Dumps' = Dumps
    BY <1>4, CloseKeeps
  <2>2. cleaner' = cleaner
    BY <1>4 DEF SaveClose
  <2> QED BY <1>2, <2>1, <2>2
<1>5. ASSUME NEW c \in Cleaner, CleanList(c)
      PROVE  KeepsNewest'
  <2>1. Dumps' = Dumps
    BY <1>5 DEF CleanList, Dumps
  <2>2. \A d \in Cleaner : cleaner'[d].files = cleaner[d].files
                           \/ cleaner'[d].files \subseteq Surplus
    BY <1>5 DEF CleanList, Remaining, NotCleaning, RDBTypeOK
  <2> SUFFICES ASSUME NEW d \in Cleaner, NEW t \in cleaner'[d].files
               PROVE  Cardinality({u \in Dumps : u > t}) >= Keep
    BY <2>1 DEF KeepsNewest
  <2> QED BY <2>2 DEF KeepsNewest, Surplus
<1>6. ASSUME NEW c \in Cleaner, NEW removed \in BOOLEAN, CleanRemove(c, removed)
      PROVE  KeepsNewest'
  <2>1. \/ Dumps' = Dumps
        \/ \E t \in cleaner[c].files : Dumps' = Dumps \ {t}
    BY <1>6, RemoveTakes
  <2>2. cleaner' = [cleaner EXCEPT ![c] =
                       Remaining(cleaner[c].files \ {Min(cleaner[c].files)})]
    BY <1>6 DEF CleanRemove
  <2>3. \A d \in Cleaner : cleaner'[d].files \subseteq cleaner[d].files
    BY <2>2 DEF Remaining, NotCleaning, RDBTypeOK
  <2> SUFFICES ASSUME NEW d \in Cleaner, NEW t \in cleaner'[d].files
               PROVE  Cardinality({u \in Dumps' : u > t}) >= Keep
    BY DEF KeepsNewest
  <2>4. t \in cleaner[d].files
    BY <2>3
  <2> QED BY <1>1, <2>1, <2>4, NewerKept
<1>7. CASE Crash
  BY <1>7 DEF Crash, NotCleaning, KeepsNewest
<1>8. CASE UNCHANGED <<snapshot, cleaner>>
  BY <1>2, <1>8 DEF Dumps
<1> QED BY <1>3, <1>4, <1>5, <1>6, <1>7, <1>8
        DEF RDBNext, SaveBegin, SaveGivesUp, LoadPick, LoadRead, EnableCompression,
            Tick, SetBack, rdbVars

\* Save takes the lock only when no Load is at work, and the other way round.
LEMMA ExcludesStep == RDBTypeOK /\ SaveExcludesLoad /\ [RDBNext]_rdbVars => SaveExcludesLoad'
<1> SUFFICES ASSUME RDBTypeOK, SaveExcludesLoad, [RDBNext]_rdbVars
             PROVE  SaveExcludesLoad'
  OBVIOUS
<1> USE DEF RDBTypeOK, SaveExcludesLoad
<1>1. CASE SaveBegin
  BY <1>1 DEF SaveBegin, Unlocked
<1>2. CASE SaveGivesUp \/ SaveRename \/ \E written \in BOOLEAN : SaveClose(written)
  BY <1>2 DEF SaveGivesUp, SaveRename, SaveClose
<1>3. CASE \E r \in Reader : LoadPick(r) \/ LoadRead(r)
  BY <1>3 DEF LoadPick, LoadRead, Readable
<1>4. CASE Crash
  BY <1>4 DEF Crash
<1>5. CASE UNCHANGED <<saver, reader>>
  BY <1>5
<1> QED BY <1>1, <1>2, <1>3, <1>4, <1>5
        DEF RDBNext, CleanList, CleanRemove, EnableCompression, Tick, SetBack, rdbVars

\* Steps that leave the directory alone leave its newest file alone.
LEMMA SameTop == ASSUME snapshot' = snapshot, NEW t, Top(t) PROVE Top(t)'
  BY DEF Top, Dumps

\* While a Load is at work, only cleanups change the directory.
LEMMA PicksStep ==
    RDBTypeOK /\ CleanersListed /\ KeepsNewest /\ SaveExcludesLoad /\ PicksAreTop /\ [RDBNext]_rdbVars
        => PicksAreTop'
<1> SUFFICES ASSUME RDBTypeOK, CleanersListed, KeepsNewest, SaveExcludesLoad, PicksAreTop,
                    [RDBNext]_rdbVars, NEW r \in Reader, NEW x, x = reader'[r], x # NoFile
             PROVE  Top(x)'
  BY DEF PicksAreTop
<1>1. ASSUME NEW s \in Reader, LoadPick(s)
      PROVE  Top(x)'
  <2>1. x = Newest \/ x = reader[r]
    BY <1>1 DEF LoadPick, RDBTypeOK
  <2>2. Top(x)
    BY <1>1, <2>1, NewestIsTop DEF LoadPick, PicksAreTop
  <2> QED BY <1>1, <2>2, SameTop DEF LoadPick
<1>2. ASSUME NEW s \in Reader, LoadRead(s)
      PROVE  Top(x)'
  <2>1. x = reader[r]
    BY <1>2 DEF LoadRead, RDBTypeOK
  <2>2. Top(x)
    BY <2>1 DEF PicksAreTop
  <2> QED BY <1>2, <2>2, SameTop DEF LoadRead
<1>3. ASSUME NEW c \in Cleaner, NEW removed \in BOOLEAN, CleanRemove(c, removed)
      PROVE  Top(x)'
  <2>1. Top(x)
    BY <1>3 DEF CleanRemove, PicksAreTop
  <2> QED BY <1>3, <2>1, RemoveKeepsTop
<1>4. CASE SaveRename \/ \E written \in BOOLEAN : SaveClose(written)
  BY <1>4 DEF SaveRename, SaveClose, SaveExcludesLoad
<1>5. CASE Crash
  BY <1>5 DEF Crash
<1>6. CASE UNCHANGED <<snapshot, reader>>
  <2>1. Top(x)
    BY <1>6 DEF PicksAreTop
  <2> QED BY <1>6, <2>1, SameTop
<1> QED BY <1>1, <1>2, <1>3, <1>4, <1>5, <1>6
        DEF RDBNext, SaveBegin, SaveGivesUp, CleanList, EnableCompression, Tick, SetBack, rdbVars

\* Without a clock set back, the names follow the order of the Saves.
LEMMA NamesStep ==
    RDBTypeOK /\ CleanersListed /\ KeepsNewest /\ NamesInOrder /\ [RDBNext]_rdbVars => NamesInOrder'
<1> SUFFICES ASSUME RDBTypeOK, CleanersListed, KeepsNewest, NamesInOrder, [RDBNext]_rdbVars, ~setBack'
             PROVE  NamesInOrder'
  BY DEF NamesInOrder
<1>0. ~setBack
  BY DEF RDBNext, SaveBegin, SaveGivesUp, SaveRename, SaveClose, LoadPick, LoadRead, CleanList,
         CleanRemove, EnableCompression, Crash, Tick, SetBack, rdbVars
<1>t. clock \in Nat /\ saver.file \in Nat /\ Dumps \subseteq Nat
  BY DEF RDBTypeOK, Dumps, Time
<1>1. CASE SaveBegin
  <2>1. saver' = [at |-> "writing", file |-> clock] /\ clock' = clock /\ recent' = recent
        /\ Dumps' = Dumps
    BY <1>1 DEF SaveBegin, Dumps
  <2>2. \A t : Top(t) => Top(t)'
    BY <1>1, SameTop DEF SaveBegin
  <2> QED BY <1>0, <1>t, <2>1, <2>2 DEF NamesInOrder
<1>2. CASE SaveRename
  <2>1. Dumps' = Dumps \cup {saver.file}
    BY <1>2, RenameAdds
  <2>2. saver'.at = "renamed" /\ saver'.file = saver.file /\ clock' = clock
        /\ recent' = recent \cup {saver.file}
    BY <1>2 DEF SaveRename, RDBTypeOK
  <2>3. Top(saver.file)'
    BY <1>0, <1>2, <1>t, <2>1, <2>2 DEF SaveRename, NamesInOrder, Top
  <2> QED BY <1>0, <1>2, <2>1, <2>2, <2>3 DEF SaveRename, NamesInOrder, Top
<1>3. ASSUME NEW written \in BOOLEAN, SaveClose(written)
      PROVE  NamesInOrder'
  <2>1. Dumps' = Dumps
    BY <1>3, CloseKeeps
  <2>2. saver'.at = "idle" /\ saver'.file = saver.file /\ clock' = clock
        /\ recent' = {saver'.file}
    BY <1>3 DEF SaveClose, RDBTypeOK
  <2>3. Top(saver.file)'
    BY <1>0, <1>3, <2>1 DEF SaveClose, NamesInOrder, Top
  <2> QED BY <1>0, <2>1, <2>2, <2>3 DEF NamesInOrder
<1>4. ASSUME NEW c \in Cleaner, NEW removed \in BOOLEAN, CleanRemove(c, removed)
      PROVE  NamesInOrder'
  <2>1. Dumps' \subseteq Dumps
    BY <1>4, RemoveTakes
  <2>2. \A t : Top(t) => Top(t)'
    BY <1>4, RemoveKeepsTop
  <2>3. saver' = saver /\ clock' = clock /\ recent' = recent
    BY <1>4 DEF CleanRemove
  <2> QED BY <1>0, <2>1, <2>2, <2>3 DEF NamesInOrder
<1>5. ASSUME snapshot' = snapshot, recent' = recent, clock' \in Nat, clock <= clock',
             saver'.at = "idle" \/ saver' = saver
      PROVE  NamesInOrder'
  <2>1. Dumps' = Dumps
    BY <1>5 DEF Dumps
  <2>2. \A t : Top(t) => Top(t)'
    BY <1>5, SameTop
  <2> QED BY <1>0, <1>5, <1>t, <2>1, <2>2 DEF NamesInOrder
<1>6. CASE SaveGivesUp \/ Crash
  BY <1>5, <1>6, <1>t DEF SaveGivesUp, Crash, RDBTypeOK
<1>7. CASE Tick
  BY <1>5, <1>7, <1>t DEF Tick
<1>8. CASE UNCHANGED <<snapshot, recent, clock, saver>>
  BY <1>5, <1>8, <1>t
<1>9. CASE SetBack
  BY <1>9 DEF SetBack
<1> QED BY <1>1, <1>2, <1>3, <1>4, <1>6, <1>7, <1>8, <1>9
        DEF RDBNext, LoadPick, LoadRead, CleanList, EnableCompression, rdbVars

-----------------------------------------------------------------------------
(* Torn files, and the number of files.                                      *)

LEMMA TornStep == RDBTypeOK /\ CleanersListed /\ TornKnown /\ [RDBNext]_rdbVars => TornKnown'
<1> SUFFICES ASSUME RDBTypeOK, CleanersListed, TornKnown, [RDBNext]_rdbVars
             PROVE  TornKnown'
  OBVIOUS
<1> USE DEF RDBTypeOK, TornKnown
<1>1. CASE SaveBegin \/ SaveGivesUp
  BY <1>1 DEF SaveBegin, SaveGivesUp, Unlocked
<1>2. CASE SaveRename
  BY <1>2 DEF SaveRename
<1>3. ASSUME NEW written \in BOOLEAN, SaveClose(written)
      PROVE  TornKnown'
  BY <1>3 DEF SaveClose
<1>4. ASSUME NEW c \in Cleaner, NEW removed \in BOOLEAN, CleanRemove(c, removed)
      PROVE  TornKnown'
  <2>1. Min(cleaner[c].files) \in Time
    BY <1>4, RemovedIsListed DEF CleanRemove
  <2> QED BY <1>4, <2>1 DEF CleanRemove
<1>5. CASE Crash
  BY <1>5 DEF Crash
<1>6. CASE UNCHANGED <<snapshot, damaged, saver>>
  BY <1>6
<1> QED BY <1>1, <1>2, <1>3, <1>4, <1>5, <1>6
        DEF RDBNext, LoadPick, LoadRead, CleanList, EnableCompression, Tick, SetBack, rdbVars

\* What cleanupOldFiles spares is Keep files at most: above the oldest of them
\* lie all others.
LEMMA SparedAreFew ==
    ASSUME RDBTypeOK
    PROVE  Cardinality(Dumps \ Surplus) <= Keep
<1> DEFINE S == Dumps \ Surplus
           t == Min(S)
           Newer == {u \in Dumps : u > t}
<1>1. S \in SUBSET Nat /\ IsFiniteSet(S)
  BY FiniteTime DEF Dumps, Time
<1>2. CASE S = {}
  BY <1>2, FS_EmptySet, RDBAssumption
<1>3. CASE S # {}
  <2>1. t \in S /\ \A y \in S : t =< y
    BY <1>1, <1>3, MinExists
  <2>2. IsFiniteSet(Newer) /\ Cardinality(Newer) \in Nat
    BY FiniteTime, FS_CardinalityType DEF Dumps
  <2>3. ~(Cardinality(Newer) >= Keep)
    BY <2>1 DEF Surplus
  <2>4. S \ {t} \subseteq Newer
    BY <1>1, <2>1
  <2>5. Cardinality(S \ {t}) <= Cardinality(Newer)
    BY <2>2, <2>4, FS_Subset
  <2>6. Cardinality(S \ {t}) = Cardinality(S) - 1 /\ Cardinality(S) \in Nat
    BY <1>1, <2>1, FS_RemoveElement, FS_CardinalityType
  <2> HIDE DEF S, Newer, t
  <2>7. Cardinality(S) <= Keep
    BY <2>2, <2>3, <2>5, <2>6, RDBAssumption
  <2> QED BY <2>7 DEF S
<1> QED BY <1>2, <1>3

\* A cleanup that is to come keeps its promise: it is listed what it leaves out,
\* or it removes one more of its files.
LEMMA ComesStep == RDBTypeOK /\ CleanersListed /\ CleanupComes /\ [RDBNext]_rdbVars => CleanupComes'
<1> SUFFICES ASSUME RDBTypeOK, CleanersListed, CleanupComes, [RDBNext]_rdbVars, ~untidy'
             PROVE  CleanupComes'
  BY DEF CleanupComes
<1>1. CASE SaveRename
  <2>1. PICK c \in Cleaner : cleaner' = [cleaner EXCEPT ![c] = [at |-> "new", files |-> {}]]
    BY <1>1 DEF SaveRename
  <2>2. cleaner'[c].at = "new"
    BY <2>1 DEF RDBTypeOK
  <2> QED BY <2>2 DEF CleanupComes
<1>2. ASSUME NEW c \in Cleaner, CleanList(c)
      PROVE  CleanupComes'
  <2>1. Dumps' = Dumps
    BY <1>2 DEF CleanList, Dumps
  <2>2. cleaner'[c] = Remaining(Surplus)
    BY <1>2 DEF CleanList, RDBTypeOK
  <2>3. Cardinality(Dumps \ Surplus) <= Keep
    BY SparedAreFew
  <2>4. CASE Surplus = {}
    <3>1. Cardinality(Dumps') <= Keep
      BY <2>1, <2>3, <2>4
    <3> QED BY <3>1 DEF CleanupComes
  <2>5. CASE Surplus # {}
    <3>1. cleaner'[c].at = "removing" /\ cleaner'[c].files = Surplus
      BY <2>2, <2>5 DEF Remaining
    <3> QED BY <2>1, <2>3, <3>1 DEF CleanupComes
  <2> QED BY <2>4, <2>5
<1>3. ASSUME NEW c \in Cleaner, NEW removed \in BOOLEAN, CleanRemove(c, removed)
      PROVE  CleanupComes'
  <2> DEFINE t == Min(cleaner[c].files)
  <2>1. t \in cleaner[c].files /\ t \in Time
    BY <1>3, RemovedIsListed DEF CleanRemove, RDBTypeOK
  <2>2. ~untidy /\ snapshot' = [snapshot EXCEPT ![t] = "none"]
    BY <1>3 DEF CleanRemove, RDBTypeOK
  <2>3. cleaner' = [cleaner EXCEPT ![c] = Remaining(cleaner[c].files \ {t})]
    BY <1>3 DEF CleanRemove
  <2>4. cleaner[c].at = "removing"
    BY <1>3 DEF CleanRemove
  <2> HIDE DEF t
  <2>5. Dumps' = Dumps \ {t}
    BY <2>1, <2>2 DEF RDBTypeOK, Dumps
  <2>6. ASSUME NEW S \in SUBSET Dumps, Cardinality(S) <= Keep, NEW R, R \subseteq S
        PROVE  Cardinality(R) <= Keep
    <3>1. IsFiniteSet(S)
      BY FiniteTime DEF Dumps
    <3>2. Cardinality(R) <= Cardinality(S)
      BY <3>1, <2>6, FS_Subset
    <3>3. Cardinality(S) \in Nat /\ Cardinality(R) \in Nat
      BY <3>1, <2>6, FS_Subset, FS_CardinalityType
    <3> QED BY <2>6, <3>2, <3>3, RDBAssumption
  <2>7. CASE Cardinality(Dumps) <= Keep
    <3>1. Cardinality(Dumps') <= Keep
      BY <2>5, <2>6, <2>7
    <3> QED BY <3>1 DEF CleanupComes
  <2>8. ASSUME NEW d \in Cleaner, cleaner[d].at = "new"
        PROVE  CleanupComes'
    <3>1. cleaner'[d].at = "new"
      BY <2>3, <2>4, <2>8 DEF RDBTypeOK
    <3> QED BY <3>1 DEF CleanupComes
  <2>9. ASSUME NEW d \in Cleaner, cleaner[d].at = "removing",
               Cardinality(Dumps \ cleaner[d].files) <= Keep
        PROVE  CleanupComes'
    <3>1. CASE d # c
      <4>1. cleaner'[d] = cleaner[d]
        BY <2>3, <3>1 DEF RDBTypeOK
      <4>2. Cardinality(Dumps' \ cleaner[d].files) <= Keep
        BY <2>5, <2>6, <2>9
      <4> QED BY <2>9, <4>1, <4>2 DEF CleanupComes
    <3>2. CASE d = c /\ cleaner[c].files \ {t} = {}
      <4>1. Dumps' = Dumps \ cleaner[c].files
        BY <2>1, <2>5, <3>2
      <4>2. Cardinality(Dumps') <= Keep
        BY <2>9, <3>2, <4>1
      <4> QED BY <4>2 DEF CleanupComes
    <3>3. CASE d = c /\ cleaner[c].files \ {t} # {}
      <4>1. /\ cleaner'[c].at = "removing"
            /\ cleaner'[c].files = cleaner[c].files \ {t}
        BY <2>3, <3>3 DEF RDBTypeOK, Remaining
      <4>2. Dumps' \ (cleaner[c].files \ {t}) = Dumps \ cleaner[c].files
        BY <2>1, <2>5
      <4> QED BY <2>9, <3>3, <4>1, <4>2 DEF CleanupComes
    <3> QED BY <3>1, <3>2, <3>3
  <2> QED BY <2>2, <2>7, <2>8, <2>9 DEF CleanupComes
<1>4. CASE Crash
  <2>1. ~untidy /\ (\A c \in Cleaner : cleaner[c] = NotCleaning) /\ Dumps' = Dumps
    BY <1>4 DEF Crash, RDBTypeOK, Dumps
  <2>2. \A c \in Cleaner : cleaner[c].at = "idle"
    BY <2>1 DEF NotCleaning
  <2>3. Cardinality(Dumps) <= Keep
    BY <2>1, <2>2 DEF CleanupComes
  <2>4. Cardinality(Dumps') <= Keep
    BY <2>1, <2>3
  <2> QED BY <2>4 DEF CleanupComes
<1>5. CASE UNCHANGED <<cleaner, untidy>> /\ Dumps' = Dumps
  BY <1>5 DEF CleanupComes
<1>6. ASSUME NEW written \in BOOLEAN, SaveClose(written)
      PROVE  CleanupComes'
  BY <1>5, <1>6, CloseKeeps DEF SaveClose
<1>7. CASE UNCHANGED <<snapshot, cleaner, untidy>>
  BY <1>5, <1>7 DEF Dumps
<1> QED BY <1>1, <1>2, <1>3, <1>4, <1>6, <1>7
        DEF RDBNext, SaveBegin, SaveGivesUp, LoadPick, LoadRead, EnableCompression,
            Tick, SetBack, rdbVars

-----------------------------------------------------------------------------
\* The invariant holds in an empty directory.
LEMMA RDBInitInv == RDBInit => RDBInv
<1> SUFFICES ASSUME RDBInit
             PROVE  RDBInv
  OBVIOUS
<1>1. RDBTypeOK
  <2>1. 0 \in Time
    BY RDBAssumption DEF Time
  <2> QED BY <2>1 DEF RDBInit, RDBTypeOK, NotCleaning
<1>2. Dumps = {}
  BY DEF RDBInit, Dumps
<1>3. CleanupComes
  BY <1>2, FS_EmptySet, RDBAssumption DEF CleanupComes
<1> QED BY <1>1, <1>2, <1>3
        DEF RDBInit, RDBInv, NotCleaning, CleanersListed, KeepsNewest, SaveExcludesLoad, PicksAreTop,
            NamesInOrder, TornKnown

\* Every step keeps it.
LEMMA StepInv == RDBInv /\ [RDBNext]_rdbVars => RDBInv'
  BY RDBTypeStep, ListedStep, KeepsStep, ExcludesStep, PicksStep, NamesStep,
     TornStep, ComesStep DEF RDBInv

\* So it holds always.
LEMMA RDBInductive == RDBSpec => []RDBInv
<1>1. RDBInit => RDBInv
  BY RDBInitInv
<1>2. RDBInv /\ [RDBNext]_rdbVars => RDBInv'
  BY StepInv
<1> QED BY <1>1, <1>2, PTL DEF RDBSpec

\* Type correctness of Save, Load and cleanupOldFiles.
THEOREM RDBTypeCorrect == RDBSpec => []RDBTypeOK
<1>1. RDBInv => RDBTypeOK
  BY DEF RDBInv
<1> QED BY <1>1, RDBInductive, PTL

\* cleanupOldFiles, however many of them overlap with each other and with Saves, and
\* even if the clock is set back, never removes one of the Keep newest snapshots.
THEOREM NewestKept == RDBSpec => []KeepsNewest
<1>1. RDBInv => KeepsNewest
  BY DEF RDBInv
<1> QED BY <1>1, RDBInductive, PTL

\* Load picks no snapshot older than the one of the last Save that returned nil, as
\* long as the clock is not set back.
THEOREM LoadsAreRecent == RDBSpec => []NoStaleLoad
<1>1. RDBInv => NoStaleLoad
  <2> SUFFICES ASSUME RDBInv, NEW r \in Reader, reader[r] # NoFile, recent # {}, ~setBack
               PROVE  reader[r] \in recent
    BY DEF NoStaleLoad
  <2>1. Top(reader[r])
    BY DEF RDBInv, PicksAreTop
  <2>2. PICK t \in recent : Top(t)
    BY DEF RDBInv, NamesInOrder
  <2>3. reader[r] = Newest /\ t = Newest
    BY <2>1, <2>2, TopIsNewest DEF RDBInv
  <2> QED BY <2>2, <2>3
<1> QED BY <1>1, RDBInductive, PTL

\* Load never opens a file whose Save is between its rename and the Close that
\* writes the contents; a torn one was left by a Save that was cut off or failed.
THEOREM NeverTorn == RDBSpec => []NoTornRead
<1>1. RDBInv => NoTornRead
  <2> SUFFICES ASSUME RDBInv, NEW r \in Reader, reader[r] # NoFile, snapshot[reader[r]] = "torn"
               PROVE  reader[r] \in damaged
    BY DEF NoTornRead
  <2>1. reader[r] \in Time /\ saver.at = "idle"
    BY DEF RDBInv, RDBTypeOK, SaveExcludesLoad
  <2> QED BY <2>1 DEF RDBInv, TornKnown
<1> QED BY <1>1, RDBInductive, PTL

\* When the cleanups are through there are at most Keep snapshots, however they
\* overlapped, unless one was cut off or failed since the last rename.
THEOREM StaysTidy == RDBSpec => []Tidy
<1>1. RDBInv => Tidy
  <2> SUFFICES ASSUME RDBInv, \A c \in Cleaner : cleaner[c] = NotCleaning, ~untidy
               PROVE  Cardinality(Dumps) <= Keep
    BY DEF Tidy
  <2>1. \A c \in Cleaner : cleaner[c].at = "idle"
    BY DEF NotCleaning
  <2> QED BY <2>1 DEF RDBInv, CleanupComes
<1> QED BY <1>1, RDBInductive, PTL

-----------------------------------------------------------------------------
(* The snapshots implement SnapshotStore.  Save's rename is its Save, the *)
(* deferred closes are its Close, a Load is its Load at the moment it has *)
(* read the file, a removal gives a snapshot up and a kill is a restart;  *)
(* all else stutters.                                                     *)

\* The mapping of SnapshotStore's variables.
Whole == {t \in Dumps : snapshot[t] # "torn"}
Unfinished == IF saver.at = "renamed" THEN saver.file ELSE NoFile

\* A step that changes nothing that is mapped.
LEMMA SnapshotStutter ==
    ASSUME UNCHANGED <<snapshot, currentFile>>, Unfinished' = Unfinished
    PROVE  UNCHANGED Snapshots!vars
<1>1. Dumps' = Dumps /\ Whole' = Whole
  BY DEF Dumps, Whole
<1> QED BY <1>1 DEF Snapshots!vars, Whole, Unfinished

\* The operators SnapshotStore takes from the library are the same ones.
LEMMA SameOperators ==
    ASSUME NEW S
    PROVE  Snapshots!Max(S) = Max(S) /\ Snapshots!Cardinality(S) = Cardinality(S)
<1>1. Snapshots!Max(S) = Max(S)
  BY DEF Max, Snapshots!Max
<1>2. Snapshots!Cardinality(S) = Cardinality(S)
  BY DEF Cardinality, Snapshots!Cardinality
<1> QED BY <1>1, <1>2

\* The rename puts the snapshot there, complete if it is not compressed.
LEMMA SaveRenameSaves ==
    ASSUME RDBInv, SaveRename
    PROVE  Snapshots!Next
<1>0. PICK t \in Time : t = saver.file
  BY DEF RDBInv, RDBTypeOK
<1>1. saver.at = "writing" /\ snapshot \in [Time -> {"none", "torn", "gzip", "plain"}]
  BY DEF RDBInv, RDBTypeOK, SaveRename
<1>2. saver'.at = "renamed" /\ saver'.file = t
  BY <1>0 DEF RDBInv, RDBTypeOK, SaveRename
<1>3. Dumps' = Dumps \cup {t}
  BY <1>0, RenameAdds DEF RDBInv
<1>4. snapshot' = [snapshot EXCEPT ![t] = IF compression THEN "torn" ELSE "plain"]
  BY <1>0 DEF SaveRename
<1>5. currentFile' = t
  BY <1>0 DEF SaveRename
<1>6. Whole' \in {Whole \cup {t}, Whole \ {t}}
  <2>1. CASE compression
    <3>1. snapshot'[t] = "torn" /\ \A d \in Time \ {t} : snapshot'[d] = snapshot[d]
      BY <1>1, <1>4, <2>1
    <3>2. Dumps \subseteq Time
      BY DEF Dumps
    <3>3. Whole' = Whole \ {t}
      BY <1>3, <3>1, <3>2 DEF Whole
    <3> QED BY <3>3
  <2>2. CASE ~ compression
    <3>1. snapshot'[t] = "plain" /\ \A d \in Time \ {t} : snapshot'[d] = snapshot[d]
      BY <1>1, <1>4, <2>2
    <3>2. Dumps \subseteq Time
      BY DEF Dumps
    <3>3. Whole' = Whole \cup {t}
      BY <1>3, <3>1, <3>2 DEF Whole
    <3> QED BY <3>3
  <2> QED BY <2>1, <2>2
<1>7. Unfinished = NoFile /\ Unfinished' = t
  BY <1>0, <1>1, <1>2 DEF Unfinished
<1>8. Snapshots!Save(t)
  BY <1>3, <1>5, <1>6, <1>7 DEF Snapshots!Save, Whole, Unfinished
<1> QED BY <1>8 DEF Snapshots!Next

\* The deferred closes complete it, if it is still there.
LEMMA SaveCloseCloses ==
    ASSUME RDBInv, NEW written \in BOOLEAN, SaveClose(written)
    PROVE  Snapshots!Next
<1>0. PICK t \in Time : t = saver.file
  BY DEF RDBInv, RDBTypeOK
<1>1. saver.at = "renamed" /\ snapshot \in [Time -> {"none", "torn", "gzip", "plain"}]
  BY DEF RDBInv, RDBTypeOK, SaveClose
<1>2. saver'.at = "idle" /\ currentFile' = currentFile
  BY DEF RDBInv, RDBTypeOK, SaveClose
<1>3. Dumps' = Dumps /\ Dumps \subseteq Time
  BY CloseKeeps DEF RDBInv, Dumps
<1>4. \/ snapshot' = snapshot
      \/ snapshot[t] = "torn" /\ snapshot' = [snapshot EXCEPT ![t] = "gzip"]
  BY <1>0 DEF SaveClose
<1>5. Whole' \in {Whole, Whole \cup ({t} \cap Dumps)}
  <2>1. CASE snapshot' = snapshot
    <3>1. Whole' = Whole
      BY <1>3, <2>1 DEF Whole
    <3> QED BY <3>1
  <2>2. CASE snapshot[t] = "torn" /\ snapshot' = [snapshot EXCEPT ![t] = "gzip"]
    <3>1. snapshot'[t] = "gzip" /\ \A d \in Time \ {t} : snapshot'[d] = snapshot[d]
      BY <1>1, <2>2
    <3>2. t \in Dumps
      BY <1>1, <2>2 DEF Dumps
    <3>3. Whole' = Whole \cup {t}
      BY <1>3, <3>1, <3>2 DEF Whole
    <3>4. Whole' = Whole \cup ({t} \cap Dumps)
      BY <3>2, <3>3
    <3> QED BY <3>4
  <2> QED BY <1>4, <2>1, <2>2
<1>6. Unfinished = t /\ Unfinished' = NoFile
  BY <1>0, <1>1, <1>2 DEF Unfinished
<1>7. Snapshots!Close(t)
  BY <1>2, <1>3, <1>5, <1>6 DEF Snapshots!Close, Whole, Unfinished
<1> QED BY <1>7 DEF Snapshots!Next

\* A Load that decodes its file is a Load of the newest snapshot; any other changes
\* nothing.
LEMMA LoadReadLoads ==
    ASSUME RDBInv, NEW r \in Reader, LoadRead(r)
    PROVE  Snapshots!Next \/ UNCHANGED Snapshots!vars
<1>1. saver.at = "idle" /\ UNCHANGED <<snapshot, saver>>
  BY DEF RDBInv, RDBTypeOK, SaveExcludesLoad, LoadRead
<1>2. Unfinished = NoFile /\ Unfinished' = NoFile
  BY <1>1 DEF Unfinished
<1>3. Dumps' = Dumps /\ Whole' = Whole
  BY <1>1 DEF Dumps, Whole
<1>4. CASE Loads(reader[r])
  <2>1. Top(reader[r]) /\ currentFile' = reader[r]
    BY <1>4 DEF RDBInv, PicksAreTop, LoadRead
  <2>2. reader[r] = Max(Dumps) /\ reader[r] \in Dumps
    BY <2>1, TopIsNewest DEF RDBInv, Newest, Top
  <2>3. reader[r] \in Whole
    BY <1>4, <2>2 DEF Whole, Loads
  <2>4. Dumps # {} /\ Max(Dumps) \in Whole /\ currentFile' = Max(Dumps)
    BY <2>1, <2>2, <2>3
  <2>5. Snapshots!Load
    BY <1>2, <1>3, <2>4, SameOperators DEF Snapshots!Load, Whole, Unfinished
  <2> QED BY <2>5 DEF Snapshots!Next
<1>5. CASE ~ Loads(reader[r])
  <2>1. currentFile' = currentFile
    BY <1>5 DEF LoadRead
  <2> QED BY <1>1, <1>2, <2>1, SnapshotStutter
<1> QED BY <1>4, <1>5

\* A removal finds Keep newer snapshots, although the list is an old one.
LEMMA CleanRemoveGivesUp ==
    ASSUME RDBInv, NEW c \in Cleaner, NEW removed \in BOOLEAN, CleanRemove(c, removed)
    PROVE  Snapshots!Next \/ UNCHANGED Snapshots!vars
<1>0. PICK t \in Time : t = Min(cleaner[c].files)
  BY RemovedIsListed DEF RDBInv, RDBTypeOK, CleanRemove
<1>1. UNCHANGED <<currentFile, saver>>
  BY DEF CleanRemove
<1>2. t \in cleaner[c].files
  BY <1>0, RemovedIsListed DEF RDBInv, CleanRemove
<1>3. snapshot' = snapshot \/ snapshot' = [snapshot EXCEPT ![t] = "none"]
  BY <1>0 DEF CleanRemove
<1>4. Unfinished' = Unfinished
  BY <1>1 DEF Unfinished
<1>5. CASE snapshot' = snapshot
  BY <1>1, <1>4, <1>5, SnapshotStutter
<1>6. CASE snapshot' = [snapshot EXCEPT ![t] = "none"]
  <2>1. Cardinality({u \in Dumps : u > t}) >= Keep
    BY <1>2 DEF RDBInv, KeepsNewest
  <2>2. snapshot'[t] = "none" /\ \A d \in Time \ {t} : snapshot'[d] = snapshot[d]
    BY <1>2, <1>6 DEF RDBInv, RDBTypeOK
  <2>3. Dumps' = Dumps \ {t} /\ Dumps \subseteq Time
    BY <2>2 DEF Dumps
  <2>4. Whole' = Whole \ {t}
    BY <2>2, <2>3 DEF Whole
  <2>5. Snapshots!GiveUp(t)
    BY <1>1, <1>4, <2>1, <2>3, <2>4, SameOperators DEF Snapshots!GiveUp, Whole, Unfinished
  <2> QED BY <2>5 DEF Snapshots!Next
<1> QED BY <1>3, <1>5, <1>6

\* The process ends and begins again.
LEMMA CrashRestarts ==
    ASSUME RDBInv, Crash
    PROVE  Snapshots!Next
<1>1. snapshot' = snapshot /\ saver'.at = "idle" /\ currentFile' = NoFile
  BY DEF RDBInv, RDBTypeOK, Crash
<1>2. Dumps' = Dumps /\ Whole' = Whole /\ Unfinished' = NoFile
  BY <1>1 DEF Dumps, Whole, Unfinished
<1>3. Snapshots!Restart
  BY <1>1, <1>2 DEF Snapshots!Restart, Whole, Unfinished
<1> QED BY <1>3 DEF Snapshots!Next

\* Every step is a step of SnapshotStore, or changes nothing that it speaks of.
LEMMA SnapshotStep == RDBInv /\ [RDBNext]_rdbVars => [Snapshots!Next]_(Snapshots!vars)
<1> SUFFICES ASSUME RDBInv, [RDBNext]_rdbVars
             PROVE  Snapshots!Next \/ UNCHANGED Snapshots!vars
  OBVIOUS
<1>1. CASE SaveRename
  BY <1>1, SaveRenameSaves
<1>2. CASE \E written \in BOOLEAN : SaveClose(written)
  BY <1>2, SaveCloseCloses
<1>3. CASE \E r \in Reader : LoadRead(r)
  BY <1>3, LoadReadLoads
<1>4. CASE \E c \in Cleaner : \E removed \in BOOLEAN : CleanRemove(c, removed)
  BY <1>4, CleanRemoveGivesUp
<1>5. CASE Crash
  BY <1>5, CrashRestarts
<1>6. CASE SaveBegin \/ SaveGivesUp
  <2>1. UNCHANGED <<snapshot, currentFile>>
    BY <1>6 DEF SaveBegin, SaveGivesUp
  <2>2. saver.at # "renamed" /\ saver'.at # "renamed"
    BY <1>6 DEF RDBInv, RDBTypeOK, SaveBegin, SaveGivesUp, Unlocked
  <2>3. Unfinished' = Unfinished
    BY <2>2 DEF Unfinished
  <2> QED BY <2>1, <2>3, SnapshotStutter
<1>7. CASE \/ \E r \in Reader : LoadPick(r)
           \/ \E c \in Cleaner : CleanList(c)
           \/ \E enable \in Compression : EnableCompression(enable)
           \/ Tick \/ SetBack \/ UNCHANGED rdbVars
  <2>1. UNCHANGED <<snapshot, currentFile, saver>>
    BY <1>7 DEF LoadPick, CleanList, EnableCompression, Tick, SetBack, rdbVars
  <2>2. Unfinished' = Unfinished
    BY <2>1 DEF Unfinished
  <2> QED BY <2>1, <2>2, SnapshotStutter
<1> QED BY <1>1, <1>2, <1>3, <1>4, <1>5, <1>6, <1>7 DEF RDBNext

\* Save, Load and cleanupOldFiles implement the abstract store of snapshots: however
\* they overlap with each other and with kills, a Load takes what is the newest
\* snapshot at one instant, with no Save half way, and the newest are never given up.
THEOREM SnapshotsAreStored == RDBSpec => ImplementsSnapshotStore
<1>1. RDBInit => Snapshots!Init
  <2> SUFFICES ASSUME RDBInit
               PROVE  Snapshots!Init
    OBVIOUS
  <2>1. Dumps = {} /\ Whole = {} /\ Unfinished = NoFile /\ currentFile = NoFile
    BY DEF RDBInit, Dumps, Whole, Unfinished
  <2> QED BY <2>1 DEF Snapshots!Init, Whole, Unfinished
<1> QED BY <1>1, SnapshotStep, RDBInductive, PTL
        DEF RDBSpec, ImplementsSnapshotStore, Snapshots!Spec

=============================================================================
