--------------------------- MODULE SnapshotStore ---------------------------
(***************************************************************************)
(* What the snapshots of a cache promise.  They are named after times.  A  *)
(* Save puts one there and closes it later; a Load happens at one instant, *)
(* never while a Save is unfinished, and finds the snapshot of the         *)
(* greatest name at that instant, if it is whole, or nothing.  A snapshot  *)
(* is given up only if enough newer ones are there.  A restart loses no    *)
(* snapshot.                                                               *)
(***************************************************************************)
EXTENDS Naturals, FiniteSets, FiniteSetsExt

CONSTANTS
    Time,       \* the names
    Keep,       \* how many newer snapshots there are when one is given up
    NoFile      \* no name

VARIABLES
    stored,     \* the snapshots that are there
    whole,      \* those of them whose contents are complete
    unfinished, \* the snapshot a Save has put there and not closed, or NoFile
    current     \* the snapshot last saved or loaded, or NoFile

vars == <<stored, whole, unfinished, current>>

Init ==
    /\ stored = {}
    /\ whole = {}
    /\ unfinished = NoFile
    /\ current = NoFile

\* A snapshot of the same name is replaced.  Uncompressed, the new one is complete.
Save(t) ==
    /\ unfinished = NoFile
    /\ stored' = stored \cup {t}
    /\ whole' \in {whole \cup {t}, whole \ {t}}
    /\ unfinished' = t
    /\ current' = t

\* The Save of t completes it, unless it was complete, has been given up or
\* cannot be written.
Close(t) ==
    /\ unfinished = t
    /\ whole' \in {whole, whole \cup ({t} \cap stored)}
    /\ unfinished' = NoFile
    /\ UNCHANGED <<stored, current>>

Load ==
    /\ unfinished = NoFile
    /\ stored # {}
    /\ Max(stored) \in whole
    /\ current' = Max(stored)
    /\ UNCHANGED <<stored, whole, unfinished>>

GiveUp(t) ==
    /\ Cardinality({u \in stored : u > t}) >= Keep
    /\ stored' = stored \ {t}
    /\ whole' = whole \ {t}
    /\ UNCHANGED <<unfinished, current>>

Restart ==
    /\ unfinished' = NoFile
    /\ current' = NoFile
    /\ UNCHANGED <<stored, whole>>

Next ==
    \/ \E t \in Time : Save(t) \/ Close(t) \/ GiveUp(t)
    \/ Load
    \/ Restart

Spec == Init /\ [][Next]_vars
=============================================================================
