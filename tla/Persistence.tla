---------------------------- MODULE Persistence ----------------------------
(***************************************************************************)
(* PersistenceManager (cache/persistence/manager.go) over the append-only  *)
(* log (cache/persistence/aof.go) and the snapshots, of which module RDB   *)
(* tells the inside: what starts, what stops, and what an error on the way *)
(* leaves behind.                                                          *)
(*                                                                         *)
(* pm.mu is held by one operation at a time, from its beginning to its     *)
(* return.  Not under it are the worker's select, the goroutines that sync *)
(* the log, and OnSet, OnDelete and OnExpire when they test am.writer and  *)
(* when they use it.                                                       *)
(*                                                                         *)
(* serializeEntry gives an empty slice, so the log has no contents, its    *)
(* fileSize stays 0, and rotateFile is never called; ReadEntry gives an    *)
(* entry whenever it is asked, so a Replay that opens a log never ends.    *)
(***************************************************************************)
EXTENDS Naturals, FiniteSets

CONSTANTS
    Worker,     \* goroutines that may run backgroundWorker at a time
    Writer,     \* the AOFWriter objects
    Caller,     \* goroutines that call OnSet, OnDelete and OnExpire
    None

ASSUME PersistenceAssumption == None \notin Writer

VARIABLES
    mode,       \* pm.config.Mode: which of "rdb" and "aof" there are
    running,    \* pm.running
    stopClosed, \* whether pm.stopChan is closed
    op,         \* what the holder of pm.mu is doing, and the step it is at
    worker,     \* each worker: "none", "select", "autoSave" (wants the lock) or "saving"
    amWriter,   \* am.writer
    log,        \* each AOFWriter: is its file open, its stopChan closed, does its
                \* syncWorker run
    caller,     \* each caller: "idle", "counted" or "tested" (am.writer is not nil)
    dump,       \* the newest snapshot: "none", "good" or "torn"
    hasLog,     \* whether there is an appendonly_*.aof
    failed      \* history: an operation has given up half way since the process began

manager == <<mode, running, stopClosed>>
aof == <<amWriter, log>>
disk == <<dump, hasLog>>

vars == <<mode, running, stopClosed, op, worker, amWriter, log, caller, dump, hasLog, failed>>

Steps == {"load", "replaying", "finishStart", "save", "stopLog", "closeLog", "clearLog",
          "clearRunning", "read", "restart"}

Unused == [file |-> FALSE, stop |-> FALSE, sync |-> FALSE]
Idle == [name |-> "none", at |-> "none"]

TypeOK ==
    /\ mode \subseteq {"rdb", "aof"}
    /\ running \in BOOLEAN
    /\ stopClosed \in BOOLEAN
    /\ op \in [name : {"start", "stop", "restore", "save", "backup"},
              at : Steps] \cup {Idle}
    /\ worker \in [Worker -> {"none", "select", "autoSave", "saving"}]
    /\ amWriter \in Writer \cup {None}
    /\ log \in [Writer -> [file : BOOLEAN, stop : BOOLEAN, sync : BOOLEAN]]
    /\ caller \in [Caller -> {"idle", "counted", "tested"}]
    /\ dump \in {"none", "good", "torn"}
    /\ hasLog \in BOOLEAN
    /\ failed \in BOOLEAN

\* NewPersistenceManager, NewRDBManager and NewAOFManager in a process that begins,
\* perhaps with another configuration.
Fresh ==
    /\ mode' \in SUBSET {"rdb", "aof"}
    /\ running' = FALSE
    /\ stopClosed' = FALSE
    /\ op' = Idle
    /\ worker' = [k \in Worker |-> "none"]
    /\ amWriter' = None
    /\ log' = [w \in Writer |-> Unused]
    /\ caller' = [c \in Caller |-> "idle"]
    /\ failed' = FALSE

Init ==
    /\ mode \in SUBSET {"rdb", "aof"}
    /\ running = FALSE
    /\ stopClosed = FALSE
    /\ op = Idle
    /\ worker = [k \in Worker |-> "none"]
    /\ amWriter = None
    /\ log = [w \in Writer |-> Unused]
    /\ caller = [c \in Caller |-> "idle"]
    /\ dump = "none"
    /\ hasLog = FALSE
    /\ failed = FALSE

\* The process dies, by a kill or an unrecovered panic, and is started again.  A
\* snapshot that was being closed is cut off.
Die ==
    /\ Fresh
    /\ dump' \in IF op.at = "save" /\ "rdb" \in mode THEN {dump, "torn"} ELSE {dump}
    /\ UNCHANGED hasLog

Begin(name, at) == op = Idle /\ op' = [name |-> name, at |-> at]
At(name, at) == op.name = name /\ op.at = at
Go(at) == op' = [op EXCEPT !.at = at]

\* The operation returns an error; deferred, the lock is given back.
Fail == op' = Idle /\ failed' = TRUE

-----------------------------------------------------------------------------
(* Start. *)

StartBegin ==
    /\ ~running
    /\ Begin("start", "load")
    /\ UNCHANGED <<manager, worker, aof, caller, disk, failed>>

\* Faulty: load does not return once the snapshot is loaded.
LoadBoth ==
    /\ At("start", "load")
    /\ Go(IF "aof" \in mode /\ hasLog THEN "replaying" ELSE "finishStart")
    /\ UNCHANGED <<manager, worker, aof, caller, disk, failed>>

\* load: a snapshot will do, else every log is replayed.
Load ==
    /\ At("start", "load")
    /\ IF "rdb" \in mode /\ dump = "good" THEN Go("finishStart")
       ELSE IF "aof" \in mode /\ hasLog THEN Go("replaying")
       ELSE Go("finishStart")
    /\ UNCHANGED <<manager, worker, aof, caller, disk, failed>>

\* NewAOFReader fails on a broken gzip header.
ReplayFails ==
    /\ At("start", "replaying")
    /\ op' = Idle
    /\ UNCHANGED <<manager, worker, aof, caller, disk, failed>>

\* AOFManager.Start and NewAOFWriter, with the goroutine that syncs.
OpenLog ==
    /\ "aof" \in mode
    /\ amWriter = None
    /\ \E w \in Writer :
          /\ ~log[w].file /\ ~log[w].sync   \* new(AOFWriter)
          /\ amWriter' = w
          /\ log' = [log EXCEPT ![w] = [file |-> TRUE, stop |-> FALSE, sync |-> TRUE]]
    /\ hasLog' = TRUE

NoLog == "aof" \notin mode /\ UNCHANGED <<amWriter, log, hasLog>>

Spawn == \E k \in Worker : worker[k] = "none" /\ worker' = [worker EXCEPT ![k] = "select"]

StartReturn ==
    /\ At("start", "finishStart")
    /\ OpenLog \/ NoLog
    /\ Spawn
    /\ running' = TRUE
    /\ op' = Idle
    /\ UNCHANGED <<mode, stopClosed, caller, dump, failed>>

\* Faulty: the worker is started before the log.
StartFailsLate ==
    /\ At("start", "finishStart")
    /\ "aof" \in mode
    /\ Spawn
    /\ op' = Idle
    /\ UNCHANGED <<manager, aof, caller, disk, failed>>

\* The log cannot be opened.
StartFails ==
    /\ At("start", "finishStart")
    /\ "aof" \in mode
    /\ op' = Idle
    /\ UNCHANGED <<manager, worker, aof, caller, disk, failed>>

-----------------------------------------------------------------------------
(* Stop.  stopChan is made once, in NewPersistenceManager. *)

StopBegin ==
    /\ running
    /\ ~stopClosed
    /\ Begin("stop", "save")
    /\ stopClosed' = TRUE
    /\ UNCHANGED <<mode, running, worker, aof, caller, disk, failed>>

\* close of a closed channel.  A panic ends the process, unless it happens in a
\* handler of net/http, which recovers it; the locks are given back either way.
StopPanic == running /\ stopClosed /\ op = Idle /\ Die

AfterSave == IF At("stop", "save")
             THEN Go(IF "aof" \in mode THEN "stopLog" ELSE "clearRunning")
             ELSE op' = Idle

\* The worker in autoSave goes back to its select.
Resume == worker' = [k \in Worker |-> IF worker[k] = "saving" THEN "select" ELSE worker[k]]

\* save, for Stop, ManualSave, Backup and autoSave.  The deferred Close of the
\* gzip stream may fail to write its end: Save returns nil, the file is torn.
Save ==
    /\ op.at = "save"
    /\ dump' \in IF "rdb" \in mode THEN {"good", "torn"} ELSE {dump}
    /\ AfterSave
    /\ Resume
    /\ UNCHANGED <<manager, aof, caller, hasLog, failed>>

\* Stop gives up; the others report the error or print it.
SaveFails ==
    /\ op.at = "save"
    /\ "rdb" \in mode
    /\ op' = Idle
    /\ failed' = (failed \/ op.name = "stop")
    /\ Resume
    /\ UNCHANGED <<manager, aof, caller, disk>>

\* AOFManager.Stop, for Stop and Restore: no writer is an error, ...
StopLogFails ==
    /\ op.at = "stopLog"
    /\ amWriter = None
    /\ Fail
    /\ UNCHANGED <<manager, worker, aof, caller, disk>>

\* Faulty: the sync goroutine is not told.
StopSyncSilent ==
    /\ op.at = "stopLog"
    /\ amWriter # None
    /\ Go("closeLog")
    /\ UNCHANGED <<manager, worker, aof, caller, disk, failed>>

\* ... and AOFWriter.Close closes the channel of the sync goroutine first.
StopSync ==
    /\ op.at = "stopLog"
    /\ amWriter # None
    /\ ~log[amWriter].stop
    /\ log' = [log EXCEPT ![amWriter].stop = TRUE]
    /\ Go("closeLog")
    /\ UNCHANGED <<manager, worker, amWriter, caller, disk, failed>>

\* close of a closed channel
StopSyncPanic ==
    /\ op.at = "stopLog"
    /\ amWriter # None
    /\ log[amWriter].stop
    /\ \/ Die
       \/ Fail /\ UNCHANGED <<manager, worker, aof, caller, disk>>

\* The gzip stream, the buffer and the file are closed.
CloseLog ==
    /\ op.at = "closeLog"
    /\ log' = [log EXCEPT ![amWriter].file = FALSE]
    /\ Go("clearLog")
    /\ UNCHANGED <<manager, worker, amWriter, caller, disk, failed>>

\* Faulty: am.writer is cleared before the error is looked at.
CloseLogFailsCleared ==
    /\ op.at = "closeLog"
    /\ Fail
    /\ amWriter' = None
    /\ UNCHANGED <<manager, worker, log, caller, disk>>

\* A write fails, or the close of the file after it: am.writer stays.
CloseLogFails ==
    /\ op.at = "closeLog"
    /\ Fail
    /\ log' \in {log, [log EXCEPT ![amWriter].file = FALSE]}
    /\ UNCHANGED <<manager, worker, amWriter, caller, disk>>

ClearLog ==
    /\ op.at = "clearLog"
    /\ amWriter' = None
    /\ Go(IF op.name = "stop" THEN "clearRunning" ELSE "read")
    /\ UNCHANGED <<manager, worker, log, caller, disk, failed>>

StopReturn ==
    /\ At("stop", "clearRunning")
    /\ running' = FALSE
    /\ op' = Idle
    /\ UNCHANGED <<mode, stopClosed, worker, aof, caller, disk, failed>>

-----------------------------------------------------------------------------
(* ManualSave, Backup, Restore. *)

ManualSave ==
    /\ Begin("save", "save")
    /\ UNCHANGED <<manager, worker, aof, caller, disk, failed>>

\* Backup saves, then copies the file; it does nothing if there are no snapshots.
Backup ==
    /\ "rdb" \in mode
    /\ Begin("backup", "save")
    /\ UNCHANGED <<manager, worker, aof, caller, disk, failed>>

RestoreBegin ==
    /\ running
    /\ Begin("restore", IF "aof" \in mode THEN "stopLog" ELSE "read")
    /\ UNCHANGED <<manager, worker, aof, caller, disk, failed>>

\* The backup is read and written to restore_<time>.rdb, which Load does not look
\* for: it loads the newest dump_<time>.rdb.
RestoreLoad ==
    /\ At("restore", "read")
    /\ "rdb" \in mode => dump = "good"
    /\ Go("restart")
    /\ UNCHANGED <<manager, worker, aof, caller, disk, failed>>

\* Faulty: the log is not started again.
RestoreReturnSilent ==
    /\ At("restore", "restart")
    /\ op' = Idle
    /\ UNCHANGED <<manager, worker, aof, caller, disk, failed>>

RestoreReturn ==
    /\ At("restore", "restart")
    /\ OpenLog \/ NoLog
    /\ op' = Idle
    /\ UNCHANGED <<manager, worker, caller, dump, failed>>

\* The backup cannot be read, the snapshot not loaded, or the log not opened.
RestoreFails ==
    /\ op.name = "restore"
    /\ op.at = "read" \/ (op.at = "restart" /\ "aof" \in mode)
    /\ Fail
    /\ UNCHANGED <<manager, worker, aof, caller, disk>>

-----------------------------------------------------------------------------
(* The worker and the goroutines that sync. *)

WorkerTick(k) ==
    /\ worker[k] = "select"
    /\ worker' = [worker EXCEPT ![k] = "autoSave"]
    /\ UNCHANGED <<manager, op, aof, caller, disk, failed>>

\* autoSave, when the interval is over or there are enough changes
AutoSave(k) ==
    /\ worker[k] = "autoSave"
    /\ Begin("save", "save")
    /\ worker' = [worker EXCEPT ![k] = "saving"]
    /\ UNCHANGED <<manager, aof, caller, disk, failed>>

NoAutoSave(k) ==
    /\ worker[k] = "autoSave"
    /\ op = Idle
    /\ worker' = [worker EXCEPT ![k] = "select"]
    /\ UNCHANGED <<manager, op, aof, caller, disk, failed>>

WorkerStop(k) ==
    /\ worker[k] = "select"
    /\ stopClosed
    /\ worker' = [worker EXCEPT ![k] = "none"]
    /\ UNCHANGED <<manager, op, aof, caller, disk, failed>>

\* syncWorker returns; before that it only flushes.
SyncStop(w) ==
    /\ log[w].sync
    /\ log[w].stop
    /\ log' = [log EXCEPT ![w].sync = FALSE]
    /\ UNCHANGED <<manager, op, worker, amWriter, caller, disk, failed>>

-----------------------------------------------------------------------------
(* OnSet and OnDelete count the change under the lock, OnExpire does not. *)

RecordChange(c) ==
    /\ caller[c] = "idle"
    /\ op = Idle
    /\ caller' = [caller EXCEPT ![c] = "counted"]
    /\ UNCHANGED <<manager, op, worker, aof, disk, failed>>

\* am.enabled is false only while am.writer is nil.
TestWriter(c) ==
    /\ caller[c] \in {"idle", "counted"}
    /\ caller' = [caller EXCEPT ![c] = IF amWriter = None THEN "idle" ELSE "tested"]
    /\ UNCHANGED <<manager, op, worker, aof, disk, failed>>

\* WriteEntry; a closed writer gives an error that the caller drops.
WriteEntry(c) ==
    /\ caller[c] = "tested"
    /\ amWriter # None
    /\ caller' = [caller EXCEPT ![c] = "idle"]
    /\ UNCHANGED <<manager, op, worker, aof, disk, failed>>

\* Stop or Restore has cleared am.writer in between: a nil receiver.
WritePanic(c) ==
    /\ caller[c] = "tested"
    /\ amWriter = None
    /\ \/ Die
       \/ /\ caller' = [caller EXCEPT ![c] = "idle"]
          /\ UNCHANGED <<manager, op, worker, aof, disk, failed>>

-----------------------------------------------------------------------------
Next ==
    \/ StartBegin \/ Load \/ ReplayFails \/ StartReturn \/ StartFails
    \/ StopBegin \/ StopPanic \/ Save \/ SaveFails
    \/ StopLogFails \/ StopSync \/ StopSyncPanic \/ CloseLog \/ CloseLogFails \/ ClearLog
    \/ StopReturn
    \/ ManualSave \/ Backup \/ RestoreBegin \/ RestoreLoad \/ RestoreReturn \/ RestoreFails
    \/ \E k \in Worker : WorkerTick(k) \/ AutoSave(k) \/ NoAutoSave(k) \/ WorkerStop(k)
    \/ \E w \in Writer : SyncStop(w)
    \/ \E c \in Caller : RecordChange(c) \/ TestWriter(c) \/ WriteEntry(c) \/ WritePanic(c)
    \/ Die

Spec == Init /\ [][Next]_vars

\* An operation goes on once it is begun, except in a Replay, which may never end;
\* a mutex wakes those that wait for it; a select takes the case of the closed
\* channel in the end, as Go chooses at random among those that are ready.
FairSpec ==
    /\ Spec
    /\ WF_vars(Load \/ StartReturn \/ Save \/ StopLogFails \/ StopSync \/ StopSyncPanic
               \/ CloseLog \/ ClearLog \/ StopReturn \/ RestoreReturn
               \/ StartFails \/ RestoreLoad \/ RestoreFails)
    /\ \A k \in Worker : SF_vars(AutoSave(k) \/ NoAutoSave(k)) /\ SF_vars(WorkerStop(k))
    /\ \A w \in Writer : WF_vars(SyncStop(w))

-----------------------------------------------------------------------------
(* Properties. *)

\* No log file stays open that the manager has lost hold of, whichever step of
\* Start, Stop or Restore gave up.
NoLostWriter == \A w \in Writer : log[w].file => amWriter = w

\* Whenever the manager is running and nobody is in one of its operations, changes
\* are written to an open log, unless an operation had failed half way, and there
\* is a worker that saves, unless the process has called Stop before: stopChan is
\* made once, and a second Start finds it closed.
RunningIsServed ==
    running /\ op = Idle =>
        /\ ~failed /\ "aof" \in mode
            => amWriter # None /\ log[amWriter].file /\ ~log[amWriter].stop
        /\ ~stopClosed => \E k \in Worker : worker[k] # "none"

\* A manager that is not running has closed its log, and the workers that are
\* still there have been told to end.
StoppedMeansStopped ==
    ~running /\ op = Idle
        => amWriter = None /\ (stopClosed \/ \A k \in Worker : worker[k] = "none")

\* Goroutines that are told to end do: a worker, even one that was about to save
\* and even if Stop fails, unless a Start that hangs in Replay keeps the lock; and
\* the one that syncs a log, once the manager has let the log go.
GoroutinesEnd ==
    /\ \A k \in Worker : stopClosed /\ worker[k] # "none"
                          ~> worker[k] = "none" \/ At("start", "replaying")
    /\ \A w \in Writer : amWriter # w /\ log[w].sync ~> ~log[w].sync

\* A Start that finds a snapshot it can load returns, whatever the log holds.
StartReturnsIfSaved ==
    At("start", "load") /\ "rdb" \in mode /\ dump = "good" ~> op = Idle

=============================================================================
