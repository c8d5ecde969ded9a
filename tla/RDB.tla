-------------------------------- MODULE RDB --------------------------------
(***************************************************************************)
(* RDBManager (cache/persistence/rdb.go): snapshot files named after the   *)
(* second in which Save began.  Save holds the lock from its beginning to  *)
(* its last deferred close, Load holds the read lock; the goroutine that   *)
(* removes old files holds nothing.  A snapshot gets its final name before *)
(* the deferred Close of the gzip stream has written its contents.         *)
(*                                                                         *)
(* The process may be killed at any time: files stay as they are, all the  *)
(* rest is lost.  The names are in local time, which may be set back.      *)
(* Keys and values are not modelled, as WriteCache writes none; nor are    *)
(* temporary files, which nothing reads.                                   *)
(***************************************************************************)
EXTENDS Naturals, FiniteSets, FiniteSetsExt

CONSTANTS
    Reader,     \* the goroutines that call Load
    Cleaner,    \* the goroutines that run cleanupOldFiles; as many as may run at once
    Keep,       \* how many files cleanupOldFiles keeps: 5 in the code
    Compression,\* the values PersistenceConfig.Compression is configured with
    MaxTime,    \* bound of the exploration: the clock stops there
    NoFile      \* no time: no name of a file

ASSUME RDBAssumption ==
    /\ Keep \in Nat \ {0}
    /\ Compression \subseteq BOOLEAN
    /\ MaxTime \in Nat
    /\ NoFile \notin Nat

VARIABLES
    clock,          \* external: local time, in seconds
    snapshot,       \* the file dump_<t>.rdb: "none", "torn" (no end), "gzip" or "plain"
    compression,    \* rm.compression
    currentFile,    \* the time in the name rm.currentFile, or NoFile
    saver,          \* where Save is: "idle", "writing" or "renamed", and its file
    reader,         \* the file each Load has picked and not yet read, or NoFile
    cleaner,        \* where each cleanup is: "idle", "new" (it has not listed the files)
                    \* or "removing", and the files it is still to remove
    recent,         \* history: the file of the last Save that returned nil, and those
                    \* renamed since
    setBack,        \* history: the clock has been set back
    damaged,        \* history: the files whose Save was cut off, or could not write,
                    \* after the rename
    untidy          \* history: a cleanup was cut off, or could not remove a file,
                    \* since the last rename

rdbVars == <<clock, snapshot, compression, currentFile, saver, reader, cleaner,
             recent, setBack, damaged, untidy>>

Time == 0 .. MaxTime

\* filepath.Glob(basePath/dump_*.rdb); temporary files do not match.
Dumps == {t \in Time : snapshot[t] # "none"}

\* Faulty: the comparison of the names the wrong way round.
Oldest == Min(Dumps)

Newest == Max(Dumps)

RDBTypeOK ==
    /\ clock \in Time
    /\ snapshot \in [Time -> {"none", "torn", "gzip", "plain"}]
    /\ compression \in Compression
    /\ currentFile \in Time \cup {NoFile}
    /\ saver \in [at : {"idle", "writing", "renamed"}, file : Time]
    /\ reader \in [Reader -> Time \cup {NoFile}]
    /\ cleaner \in [Cleaner -> [at : {"idle", "new", "removing"}, files : SUBSET Time]]
    /\ recent \subseteq Time
    /\ setBack \in BOOLEAN
    /\ damaged \subseteq Time
    /\ untidy \in BOOLEAN

NotCleaning == [at |-> "idle", files |-> {}]

\* NewRDBManager, and EnableCompression with the configured value, on an empty
\* directory.
RDBInit ==
    /\ clock = 0
    /\ snapshot = [t \in Time |-> "none"]
    /\ compression \in Compression
    /\ currentFile = NoFile
    /\ saver = [at |-> "idle", file |-> 0]
    /\ reader = [r \in Reader |-> NoFile]
    /\ cleaner = [c \in Cleaner |-> NotCleaning]
    /\ recent = {}
    /\ setBack = FALSE
    /\ damaged = {}
    /\ untidy = FALSE

\* Faulty: Load takes no read lock, or Save heeds none.
AnyTime == TRUE
NoSave == saver.at = "idle"

\* rm.mu: nobody holds it, or only readers do.
Unlocked == saver.at = "idle" /\ \A r \in Reader : reader[r] = NoFile
Readable == saver.at = "idle"

(* Save: lock, file name, temporary file, encoder. *)
SaveBegin ==
    /\ Unlocked
    /\ saver' = [at |-> "writing", file |-> clock]
    /\ UNCHANGED <<clock, snapshot, compression, currentFile, reader, cleaner,
                   recent, setBack, damaged, untidy>>

\* A write, the flush or the rename fails: Save returns and the temporary file
\* stays behind.
SaveGivesUp ==
    /\ saver.at = "writing"
    /\ saver' = [saver EXCEPT !.at = "idle"]
    /\ UNCHANGED <<clock, snapshot, compression, currentFile, reader, cleaner,
                   recent, setBack, damaged, untidy>>

\* os.Rename, and the goroutine for the old files.  Flush has passed all bytes to
\* the gzip stream, which has not passed them to the file.
SaveRename ==
    /\ saver.at = "writing"
    /\ snapshot' = [snapshot EXCEPT ![saver.file] = IF compression THEN "torn" ELSE "plain"]
    /\ currentFile' = saver.file
    /\ saver' = [saver EXCEPT !.at = "renamed"]
    /\ \E c \in Cleaner :
          /\ cleaner[c] = NotCleaning
          /\ cleaner' = [cleaner EXCEPT ![c] = [at |-> "new", files |-> {}]]
    /\ damaged' = damaged \ {saver.file}
    /\ recent' = recent \cup {saver.file}
    /\ untidy' = FALSE
    /\ UNCHANGED <<clock, compression, reader, setBack>>

\* The deferred calls: gzip Close, file Close, unlock.  The error of the first is
\* dropped, and Save has already decided to return nil.
SaveClose(written) ==
    /\ saver.at = "renamed"
    /\ saver' = [saver EXCEPT !.at = "idle"]
    /\ recent' = {saver.file}
    /\ IF snapshot[saver.file] = "torn"
       THEN /\ snapshot' = IF written THEN [snapshot EXCEPT ![saver.file] = "gzip"] ELSE snapshot
            /\ damaged' = IF written THEN damaged ELSE damaged \cup {saver.file}
       ELSE written /\ UNCHANGED <<snapshot, damaged>>
    /\ UNCHANGED <<clock, compression, currentFile, reader, cleaner,
                   setBack, untidy>>

(* Load: read lock, Glob, the file with the greatest name. *)
LoadPick(r) ==
    /\ Readable
    /\ reader[r] = NoFile
    /\ Dumps # {}
    /\ reader' = [reader EXCEPT ![r] = Newest]
    /\ UNCHANGED <<clock, snapshot, compression, currentFile, saver, cleaner,
                   recent, setBack, damaged, untidy>>

\* The file can be opened, and decoded as rm.compression says.
Loads(t) == snapshot[t] = IF compression THEN "gzip" ELSE "plain"

LoadRead(r) ==
    /\ reader[r] # NoFile
    /\ reader' = [reader EXCEPT ![r] = NoFile]
    /\ currentFile' = IF Loads(reader[r]) THEN reader[r] ELSE currentFile
    /\ UNCHANGED <<clock, snapshot, compression, saver, cleaner,
                   recent, setBack, damaged, untidy>>

\* Faulty: the first files are kept; one file too many is kept.
SurplusNewest == {t \in Dumps : Cardinality({u \in Dumps : u < t}) >= Keep}
SurplusLoose == {t \in Dumps : Cardinality({u \in Dumps : u > t}) > Keep}

(* cleanupOldFiles: Glob lists the files in the order of their names. *)
Surplus == {t \in Dumps : Cardinality({u \in Dumps : u > t}) >= Keep}

\* The loop over the files that are left.
Remaining(files) == IF files = {} THEN NotCleaning ELSE [at |-> "removing", files |-> files]

CleanList(c) ==
    /\ cleaner[c].at = "new"
    /\ cleaner' = [cleaner EXCEPT ![c] = Remaining(Surplus)]
    /\ UNCHANGED <<clock, snapshot, compression, currentFile, saver, reader,
                   recent, setBack, damaged, untidy>>

\* os.Remove, whose error nobody looks at.
CleanRemove(c, removed) ==
    /\ cleaner[c].at = "removing"
    /\ LET t == Min(cleaner[c].files)
       IN  /\ snapshot' = IF removed THEN [snapshot EXCEPT ![t] = "none"] ELSE snapshot
           /\ cleaner' = [cleaner EXCEPT ![c] = Remaining(@.files \ {t})]
    /\ untidy' = (untidy \/ ~removed)
    /\ UNCHANGED <<clock, compression, currentFile, saver, reader,
                   recent, setBack, damaged>>

EnableCompression(enable) ==
    /\ Unlocked
    /\ compression' = enable
    /\ UNCHANGED <<clock, snapshot, currentFile, saver, reader, cleaner,
                   recent, setBack, damaged, untidy>>

\* The process is killed and started again, perhaps with another configuration.
Crash ==
    /\ compression' \in Compression
    /\ currentFile' = NoFile
    /\ saver' = [saver EXCEPT !.at = "idle"]
    /\ reader' = [r \in Reader |-> NoFile]
    /\ cleaner' = [c \in Cleaner |-> NotCleaning]
    /\ damaged' = IF saver.at = "renamed" /\ snapshot[saver.file] = "torn"
                  THEN damaged \cup {saver.file} ELSE damaged
    /\ untidy' = (untidy \/ \E c \in Cleaner : cleaner[c] # NotCleaning)
    /\ UNCHANGED <<clock, snapshot, recent, setBack>>

Tick ==
    /\ clock < MaxTime
    /\ clock' = clock + 1
    /\ UNCHANGED <<snapshot, compression, currentFile, saver, reader, cleaner,
                   recent, setBack, damaged, untidy>>

\* Summer time ends, or the clock is corrected.
SetBack ==
    /\ clock > 0
    /\ clock' = clock - 1
    /\ setBack' = TRUE
    /\ UNCHANGED <<snapshot, compression, currentFile, saver, reader, cleaner,
                   recent, damaged, untidy>>

RDBNext ==
    \/ SaveBegin \/ SaveGivesUp \/ SaveRename
    \/ \E written \in BOOLEAN : SaveClose(written)
    \/ \E r \in Reader : LoadPick(r) \/ LoadRead(r)
    \/ \E c \in Cleaner : CleanList(c) \/ \E removed \in BOOLEAN : CleanRemove(c, removed)
    \/ \E enable \in Compression : EnableCompression(enable)
    \/ Crash
    \/ Tick \/ SetBack

RDBSpec == RDBInit /\ [][RDBNext]_rdbVars

-----------------------------------------------------------------------------
(* Properties. *)

\* Cleanups overlap with each other, with Saves and with a clock set back, and
\* still never remove one of the newest files: whatever a cleanup has yet to
\* remove, at least Keep files with greater names are there.
KeepsNewest ==
    \A c \in Cleaner : \A t \in cleaner[c].files :
        Cardinality({u \in Dumps : u > t}) >= Keep

\* The snapshots are a SnapshotStore: Save, Load and cleanupOldFiles, file by file and
\* with the deferred closes after the rename, look as if a Load happened at one
\* instant, with no Save half way.  The file it picked is there and the newest when it
\* opens it, and a cleanup, however late, gives up none of the newest.
Snapshots == INSTANCE SnapshotStore WITH
    Time <- Time,
    Keep <- Keep,
    NoFile <- NoFile,
    stored <- Dumps,
    whole <- {t \in Dumps : snapshot[t] # "torn"},
    unfinished <- IF saver.at = "renamed" THEN saver.file ELSE NoFile,
    current <- currentFile

ImplementsSnapshotStore == Snapshots!Spec

\* A Load never reads a file that a Save in progress has renamed and not closed;
\* a torn file is one whose Save was cut off or failed.
NoTornRead ==
    \A r \in Reader :
        reader[r] # NoFile => snapshot[reader[r]] # "torn" \/ reader[r] \in damaged

\* As long as the clock is not set back, a Load picks the snapshot of the last
\* Save that returned nil, or one renamed since: never an older one.
NoStaleLoad ==
    \A r \in Reader :
        reader[r] # NoFile /\ recent # {} /\ ~setBack => reader[r] \in recent

\* Snapshots do not pile up: once the cleanups are through, there are at most
\* Keep of them, unless a cleanup was cut off or failed since the last rename.
Tidy ==
    (\A c \in Cleaner : cleaner[c] = NotCleaning) /\ ~untidy => Cardinality(Dumps) <= Keep

=============================================================================
