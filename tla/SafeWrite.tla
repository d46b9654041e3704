------------------------------ MODULE SafeWrite -----------------------------
(***************************************************************************)
(* How the scorer writes a file anew: write_record of state.py, and the    *)
(* second half of splice_voice_fields, which do the same to a record and   *)
(* to a note.  A temp file is filled beside it, and takes its name.        *)
(*                                                                         *)
(* What counts is what others see under the name, the owner's editor, the  *)
(* other passes and the next process, and what is left of it when the      *)
(* process is killed or the machine that holds the disk goes down.         *)
(* Scoring takes such a write as one step.                                 *)
(***************************************************************************)
EXTENDS Naturals, FiniteSets

CONSTANTS
    MaxWrites,   \* bound: writes
    MaxFaults,   \* bound: failing operations
    MaxDeaths    \* bound: kills of the process, and crashes of the machine

ASSUME BoundAssumption == MaxWrites \in Nat /\ MaxFaults \in Nat /\ MaxDeaths \in Nat

VARIABLES
    step,      \* where the write is
    writes,    \* how many there were
    temp,      \* the temp file; {} when there is none
    dest,      \* the file under the name
    disk,      \* the files that may be under the name after a crash
    litter,    \* whether a temp file is left that no call knows of
    kept,      \* the last write that returned with all on disk
    faults, deaths

vars == <<step, writes, temp, dest, disk, litter, kept, faults, deaths>>

(* A file: which write made it, whether all of that is in it, whether all  *)
(* that is in it is on disk, and whether others may read it.               *)
File == [write : Nat, whole : BOOLEAN, synced : BOOLEAN, shared : BOOLEAN]

(* The first file is another's: the ingest service's note, or no record.   *)
Init ==
    /\ step = "idle" /\ writes = 0
    /\ temp = {}
    /\ dest = [write |-> 0, whole |-> TRUE, synced |-> TRUE, shared |-> TRUE]
    /\ disk = {dest}
    /\ litter = FALSE
    /\ kept = 0 /\ faults = 0 /\ deaths = 0

----
(* mkstemp: to be read by its owner alone.                                 *)
Create ==
    /\ step = "idle" /\ writes < MaxWrites
    /\ writes' = writes + 1
    /\ temp' = {[write |-> writes', whole |-> FALSE, synced |-> FALSE, shared |-> FALSE]}
    /\ step' = "dump"
    /\ UNCHANGED <<dest, disk, litter, kept, faults, deaths>>

Proceed(from, to, files) ==
    /\ step = from
    /\ step' = to
    /\ temp' = files
    /\ UNCHANGED <<writes, dest, disk, litter, kept, faults, deaths>>

(* Into Python's buffer: some of it may reach the file.                    *)
Dump == Proceed("dump", "chmod", temp)

Chmod == Proceed("chmod", "flush", {[t EXCEPT !.shared = TRUE] : t \in temp})

Flush == Proceed("flush", "fsync", {[t EXCEPT !.whole = TRUE] : t \in temp})

Fsync_Skipped == Proceed("fsync", "replace", temp)
Fsync == Proceed("fsync", "replace", {[t EXCEPT !.synced = t.whole] : t \in temp})

(* os.replace: at once for who looks, but a crash may undo it.             *)
Replace ==
    /\ step = "replace"
    /\ step' = "syncDir"
    /\ dest' \in temp
    /\ disk' = disk \cup {dest'}
    /\ temp' = {}
    /\ UNCHANGED <<writes, litter, kept, faults, deaths>>

SyncDir_Skipped ==
    /\ step = "syncDir"
    /\ step' = "idle"
    /\ kept' = dest.write
    /\ UNCHANGED <<writes, temp, dest, disk, litter, faults, deaths>>

(* The directory is flushed; that this fails is accepted.                  *)
SyncDir ==
    /\ step = "syncDir"
    /\ step' = "idle"
    /\ disk' = {dest}
    /\ kept' = dest.write
    /\ UNCHANGED <<writes, temp, dest, litter, faults, deaths>>

SyncDirFails ==
    /\ step = "syncDir" /\ faults < MaxFaults
    /\ step' = "idle"
    /\ faults' = faults + 1
    /\ UNCHANGED <<writes, temp, dest, disk, litter, kept, deaths>>

(* Whether the temp file stays behind: its removal may fail as well.       *)
Removed == IF faults + 1 < MaxFaults THEN {TRUE, FALSE} ELSE {FALSE}

Fail_Leaks ==
    /\ step \in {"dump", "chmod", "flush", "fsync", "replace"} /\ faults < MaxFaults
    /\ step' = "idle"
    /\ temp' = {}
    /\ litter' = TRUE /\ faults' = faults + 1
    /\ UNCHANGED <<writes, dest, disk, kept, deaths>>

(* An operation fails: the temp file is removed, and the caller told.      *)
Fail ==
    /\ step \in {"dump", "chmod", "flush", "fsync", "replace"} /\ faults < MaxFaults
    /\ step' = "idle"
    /\ temp' = {}
    /\ \E left \in Removed :
          /\ litter' = (litter \/ left)
          /\ faults' = IF left THEN faults + 2 ELSE faults + 1
    /\ UNCHANGED <<writes, dest, disk, kept, deaths>>

----
(* The process dies, and the next one knows nothing of its temp file.      *)
Die ==
    /\ deaths < MaxDeaths
    /\ deaths' = deaths + 1
    /\ step' = "idle"
    /\ temp' = {}
    /\ litter' = (litter \/ temp # {})
    /\ UNCHANGED <<writes, kept, faults>>

Kill == Die /\ UNCHANGED <<dest, disk>>

(* The machine with the disk: what was not synced may be gone.             *)
Crash ==
    /\ Die
    /\ \E file \in disk : dest' = [file EXCEPT !.whole = file.synced]
    /\ disk' = {dest'}

Next ==
    \/ Create \/ Dump \/ Chmod \/ Flush \/ Fsync \/ Replace \/ SyncDir
    \/ SyncDirFails \/ Fail \/ Kill \/ Crash

Spec == Init /\ [][Next]_vars

----
(* Properties.                                                             *)

Filling == {"dump", "chmod", "flush", "fsync", "replace"}

(* Types, and when there is a temp file.                                   *)
TypeOK ==
    /\ step \in Filling \cup {"idle", "syncDir"}
    /\ writes \in 0..MaxWrites
    /\ temp \subseteq File
    /\ dest \in File
    /\ disk \subseteq File /\ dest \in disk
    /\ litter \in BOOLEAN
    /\ kept \in 0..MaxWrites
    /\ faults \in 0..MaxFaults /\ deaths \in 0..MaxDeaths
    /\ step \in Filling <=> temp # {}

(* Under the name there is always a whole file that others may read, the   *)
(* old one or a new one, now and whenever the machine goes down.           *)
NeverTorn == \A file \in disk : file.whole /\ file.synced /\ file.shared

(* What a write that returned put there is there until the next, unless    *)
(* the directory was not flushed.                                          *)
ReturnedIsKept == \A file \in disk : file.write >= kept

(* A temp file is left in the vault or beside the records by a process     *)
(* that dies, or by two failures in one write, and by nothing else.        *)
LitterIsRare == litter => deaths > 0 \/ faults > 1
=============================================================================
