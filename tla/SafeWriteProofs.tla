--------------------------- MODULE SafeWriteProofs --------------------------
(***************************************************************************)
(* Proofs about SafeWrite, for any number of writes, failures and deaths.  *)
(***************************************************************************)
EXTENDS SafeWrite, TLAPS

(* What the temp file has come to at each step, and whose write it is.     *)
Stage ==
    /\ \A t \in temp :
          /\ t.write = writes
          /\ step \in {"flush", "fsync", "replace"} => t.shared
          /\ step \in {"fsync", "replace"} => t.whole
          /\ step = "replace" => t.synced
    /\ \A file \in disk : file.write <= writes

Inv == TypeOK /\ Stage /\ NeverTorn /\ ReturnedIsKept /\ LitterIsRare

LEMMA InitInv == Init => Inv
  <1> SUFFICES ASSUME Init PROVE Inv
    OBVIOUS
  <1> USE DEF Init
  <1>1. dest \in File /\ dest.write = 0 /\ dest.whole /\ dest.synced /\ dest.shared
    BY DEF File
  <1>2. TypeOK
    <2>1. 0 \in 0..MaxWrites /\ 0 \in 0..MaxFaults /\ 0 \in 0..MaxDeaths
      BY BoundAssumption
    <2>2. disk \subseteq File /\ dest \in disk
      BY <1>1
    <2> QED
      BY <1>1, <2>1, <2>2 DEF TypeOK, Filling
  <1>3. Stage /\ NeverTorn /\ ReturnedIsKept /\ LitterIsRare
    BY <1>1 DEF Stage, NeverTorn, ReturnedIsKept, LitterIsRare
  <1> QED
    BY <1>2, <1>3 DEF Inv

(* A step that only changes the temp file, and what it does to it.         *)
LEMMA ProceedInv ==
    ASSUME NEW from \in Filling, NEW to \in Filling, NEW files,
           Inv, Proceed(from, to, files), files # {}, files \subseteq File,
           \A t \in files :
              /\ t.write = writes
              /\ to \in {"flush", "fsync", "replace"} => t.shared
              /\ to \in {"fsync", "replace"} => t.whole
              /\ to = "replace" => t.synced
    PROVE  Inv'
  <1> USE DEF Proceed, Inv
  <1>1. TypeOK'
    BY DEF TypeOK, Filling
  <1>2. Stage'
    BY DEF Stage
  <1>3. NeverTorn' /\ ReturnedIsKept' /\ LitterIsRare'
    BY DEF NeverTorn, ReturnedIsKept, LitterIsRare
  <1> QED
    BY <1>1, <1>2, <1>3

LEMMA Changed ==
    ASSUME NEW t \in File
    PROVE  /\ [t EXCEPT !.shared = TRUE] \in File
           /\ [t EXCEPT !.whole = TRUE] \in File
           /\ [t EXCEPT !.synced = t.whole] \in File
  BY DEF File

LEMMA NextInv == Inv /\ [Next]_vars => Inv'
  <1> SUFFICES ASSUME Inv, [Next]_vars PROVE Inv'
    OBVIOUS
  <1> USE BoundAssumption DEF Inv, TypeOK, Stage, NeverTorn, ReturnedIsKept, LitterIsRare,
          Filling
  <1>1. CASE Create
    BY <1>1 DEF Create, File
  <1>2. CASE Dump
    BY <1>2 DEF Dump, Proceed
  <1>3. CASE Chmod
    <2> DEFINE files == {[t EXCEPT !.shared = TRUE] : t \in temp}
    <2>1. temp \subseteq File /\ temp # {} /\ Proceed("chmod", "flush", files)
      BY <1>3 DEF Chmod, Proceed
    <2>2. files # {} /\ files \subseteq File
      BY <2>1, Changed
    <2>3. \A t \in files : t.write = writes /\ t.shared
      BY <2>1 DEF File
    <2> HIDE DEF files
    <2> QED
      BY <2>1, <2>2, <2>3, ProceedInv
  <1>4. CASE Flush
    <2> DEFINE files == {[t EXCEPT !.whole = TRUE] : t \in temp}
    <2>1. temp \subseteq File /\ temp # {} /\ Proceed("flush", "fsync", files)
      BY <1>4 DEF Flush, Proceed
    <2>2. files # {} /\ files \subseteq File
      BY <2>1, Changed
    <2>3. \A t \in files : t.write = writes /\ t.shared /\ t.whole
      BY <2>1 DEF File, Proceed
    <2> HIDE DEF files
    <2> QED
      BY <2>1, <2>2, <2>3, ProceedInv
  <1>5. CASE Fsync
    <2> DEFINE files == {[t EXCEPT !.synced = t.whole] : t \in temp}
    <2>1. temp \subseteq File /\ temp # {} /\ Proceed("fsync", "replace", files)
      BY <1>5 DEF Fsync, Proceed
    <2>2. files # {} /\ files \subseteq File
      BY <2>1, Changed
    <2>3. \A t \in files : t.write = writes /\ t.shared /\ t.whole /\ t.synced
      BY <2>1 DEF File, Proceed
    <2> HIDE DEF files
    <2> QED
      BY <2>1, <2>2, <2>3, ProceedInv
  <1>6. CASE Replace
    BY <1>6 DEF Replace, File
  <1>7. CASE SyncDir
    BY <1>7 DEF SyncDir, File
  <1>8. CASE SyncDirFails
    BY <1>8 DEF SyncDirFails
  <1>9. CASE Fail
    <2>1. PICK left \in Removed : /\ litter' = (litter \/ left)
                                  /\ faults' = IF left THEN faults + 2 ELSE faults + 1
      BY <1>9 DEF Fail
    <2>2. left \in BOOLEAN /\ (left => faults + 1 < MaxFaults)
      BY <2>1 DEF Removed
    <2>3. faults \in 0..MaxFaults /\ faults < MaxFaults
      BY <1>9 DEF Fail
    <2>4. faults' \in 0..MaxFaults /\ (left => faults' > 1) /\ faults' >= faults
      <3>1. CASE left
        BY <2>1, <2>2, <2>3, <3>1
      <3>2. CASE ~left
        BY <2>1, <2>3, <3>2
      <3> QED
        BY <3>1, <3>2
    <2>5. litter' \in BOOLEAN /\ (litter' => deaths > 0 \/ faults' > 1)
      <3>1. CASE left
        BY <2>1, <2>4, <3>1
      <3>2. CASE ~left
        <4>1. litter' = litter
          BY <2>1, <2>2, <3>2
        <4> QED
          BY <2>3, <2>4, <4>1
      <3> QED
        BY <3>1, <3>2
    <2>6. step' = "idle" /\ temp' = {} /\ UNCHANGED <<writes, dest, disk, kept, deaths>>
      BY <1>9 DEF Fail
    <2> QED
      BY <2>4, <2>5, <2>6
  <1>10. CASE Kill
    BY <1>10 DEF Kill, Die
  <1>11. CASE Crash
    BY <1>11 DEF Crash, Die, File
  <1>12. CASE UNCHANGED vars
    BY <1>12 DEF vars
  <1> QED
    BY <1>1, <1>2, <1>3, <1>4, <1>5, <1>6, <1>7, <1>8, <1>9, <1>10, <1>11, <1>12 DEF Next

LEMMA InvHolds == Spec => []Inv
  BY InitInv, NextInv, PTL DEF Spec

(* Types are kept, through any failures and deaths.                        *)
THEOREM SafeWriteTypeCorrect == Spec => []TypeOK
  <1>1. Inv => TypeOK
    BY DEF Inv
  <1> QED
    BY <1>1, InvHolds, PTL

(* Nobody ever sees a torn file under the name, or one that only its       *)
(* writer may read, wherever the process dies or the machine goes down.    *)
THEOREM NeverTornHolds == Spec => []NeverTorn
  <1>1. Inv => NeverTorn
    BY DEF Inv
  <1> QED
    BY <1>1, InvHolds, PTL

(* A write that returned with its directory flushed is never undone.       *)
THEOREM ReturnedIsKeptHolds == Spec => []ReturnedIsKept
  <1>1. Inv => ReturnedIsKept
    BY DEF Inv
  <1> QED
    BY <1>1, InvHolds, PTL

(* Nothing but a death or two failures in one write leaves a temp file.    *)
THEOREM LitterIsRareHolds == Spec => []LitterIsRare
  <1>1. Inv => LitterIsRare
    BY DEF Inv
  <1> QED
    BY <1>1, InvHolds, PTL
=============================================================================
