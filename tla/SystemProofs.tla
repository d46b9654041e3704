---------------------------- MODULE SystemProofs ----------------------------
(***************************************************************************)
(* Proofs about Sweeps, and about System, which is Sweeps with the passes  *)
(* it starts: for any number of notes, pokes, failures and processes, the  *)
(* sweep lock keeps passes apart and never gets stuck, and so the scorer   *)
(* keeps the promise of VoiceBook.                                         *)
(***************************************************************************)
EXTENDS System, TLAPS

(* Who holds the lock, read off where the threads are: the hourly thread   *)
(* in its pass, or a request from its handler's acquire to the end of the  *)
(* pass it started; and a pass is only ever started once.                  *)
Holds(p) == post[p] = "spawn" \/ trig[p] \in {"ready", "pass"}
HolderKnown ==
    /\ lock = Hourly <=> hourly = "pass"
    /\ \A p \in Posts : lock = p <=> Holds(p)
PassAfterSpawn == \A p \in Posts : trig[p] # "none" => post[p] \in {"answer", "done"}

LockInv == TypeOK /\ HolderKnown /\ PassAfterSpawn

LEMMA InitLockInv == Init => LockInv
  BY ThreadAssumption
     DEF Init, LockInv, TypeOK, HolderKnown, PassAfterSpawn, Holds

LEMMA TypeStep == TypeOK /\ [Next]_vars => TypeOK'
  <1> SUFFICES ASSUME TypeOK, [Next]_vars PROVE TypeOK'
    OBVIOUS
  <1> USE DEF TypeOK
  <1>1. CASE MainThread
    BY <1>1 DEF MainThread, StartHttp, StartSweep, JoinHttp, JoinSweep, SetStop,
                AwaitServing, AwaitShutdown, MainStep, sweeps
  <1>2. CASE HttpThread
    BY <1>2 DEF HttpThread, Serve, EndServing, sweeps
  <1>3. CASE HourlyThread \/ EndHourly
    BY <1>3 DEF HourlyThread, TestStop, BeginHourly, WakeUp, EndHourly, threads
  <1>4. CASE Sigterm \/ NoteArrives
    BY <1>4 DEF Sigterm, NoteArrives, threads, sweeps
  <1>5. ASSUME NEW p \in Posts,
               Accept(p) \/ PostThread(p) \/ BeginTriggered(p) \/ EndTriggered(p)
        PROVE  TypeOK'
    <2>1. CASE Accept(p) \/ Answer(p)
      BY <2>1 DEF Accept, Answer, threads
    <2>2. CASE TryLock(p)
      BY <2>2 DEF TryLock, threads
    <2>3. CASE Spawn(p) \/ SpawnFails(p)
      BY <2>3 DEF Spawn, SpawnFails, threads
    <2>4. CASE BeginTriggered(p) \/ EndTriggered(p)
      BY <2>4 DEF BeginTriggered, EndTriggered, threads
    <2> QED
      BY <1>5, <2>1, <2>2, <2>3, <2>4 DEF PostThread
  <1>6. CASE UNCHANGED vars
    BY <1>6 DEF vars, threads, sweeps
  <1> QED
    BY <1>1, <1>2, <1>3, <1>4, <1>5, <1>6 DEF Next

LEMMA LockInvStep == LockInv /\ [Next]_vars => LockInv'
  <1> SUFFICES ASSUME LockInv, [Next]_vars PROVE HolderKnown' /\ PassAfterSpawn'
    BY TypeStep DEF LockInv
  <1>1. TypeOK /\ HolderKnown /\ PassAfterSpawn
    BY DEF LockInv
  <1>2. CASE UNCHANGED <<hourly, post, trig, lock>>
    BY <1>1, <1>2 DEF HolderKnown, PassAfterSpawn, Holds
  <1>3. CASE MainThread
    <2>1. CASE StartSweep
      BY <1>1, <2>1 DEF StartSweep, MainStep, TypeOK, HolderKnown, PassAfterSpawn, Holds
    <2>2. CASE UNCHANGED hourly
      BY <1>2, <1>3, <2>2 DEF MainThread, StartHttp, StartSweep, JoinHttp, JoinSweep,
                              SetStop, AwaitServing, AwaitShutdown, MainStep, sweeps
    <2> QED
      BY <1>3, <2>1, <2>2 DEF MainThread, StartHttp, JoinHttp, JoinSweep,
                              SetStop, AwaitServing, AwaitShutdown, sweeps
  <1>4. CASE HttpThread \/ Sigterm \/ NoteArrives \/ UNCHANGED vars
    BY <1>2, <1>4 DEF HttpThread, Serve, EndServing, Sigterm, NoteArrives, sweeps, vars
  <1>5. CASE HourlyThread \/ EndHourly
    BY <1>1, <1>5, ThreadAssumption
       DEF HourlyThread, TestStop, BeginHourly, WakeUp, EndHourly,
           TypeOK, HolderKnown, PassAfterSpawn, Holds
  <1>6. ASSUME NEW p \in Posts, Accept(p) \/ Answer(p)
        PROVE  HolderKnown' /\ PassAfterSpawn'
    BY <1>1, <1>6 DEF Accept, Answer, TypeOK, HolderKnown, PassAfterSpawn, Holds
  <1>7. ASSUME NEW p \in Posts, TryLock(p)
        PROVE  HolderKnown' /\ PassAfterSpawn'
    BY <1>1, <1>7, ThreadAssumption
       DEF TryLock, TypeOK, HolderKnown, PassAfterSpawn, Holds
  <1>8. ASSUME NEW p \in Posts, Spawn(p) \/ SpawnFails(p)
        PROVE  HolderKnown' /\ PassAfterSpawn'
    BY <1>1, <1>8, ThreadAssumption
       DEF Spawn, SpawnFails, TypeOK, HolderKnown, PassAfterSpawn, Holds
  <1>9. ASSUME NEW p \in Posts, BeginTriggered(p) \/ EndTriggered(p)
        PROVE  HolderKnown' /\ PassAfterSpawn'
    BY <1>1, <1>9, ThreadAssumption
       DEF BeginTriggered, EndTriggered, TypeOK, HolderKnown, PassAfterSpawn, Holds
  <1> QED
    BY <1>3, <1>4, <1>5, <1>6, <1>7, <1>8, <1>9 DEF Next, PostThread

LEMMA LockInvariant == Spec => []LockInv
  BY InitLockInv, LockInvStep, PTL DEF Spec

----
(* Every thread's state, and main's knowledge of the others', has its type *)
(* (main.py).                                                              *)
THEOREM SweepsTypeCorrect == Spec => []TypeOK
  <1>1. LockInv => TypeOK
    BY DEF LockInv
  <1> QED
    BY <1>1, LockInvariant, PTL

(* Two passes never run at once, whichever thread takes the lock and       *)
(* whichever releases it (server.py, VOICE.md section 8).                  *)
THEOREM OnePassHolds == Spec => []OnePass
  <1>1. LockInv => OnePass
    <2> SUFFICES ASSUME LockInv, NEW t \in Passes, NEW u \in Passes PROVE t = u
      BY DEF OnePass
    <2>1. \A v \in Passes : lock = v
      BY DEF Passes, LockInv, HolderKnown, Holds
    <2> QED
      BY <2>1
  <1> QED
    BY <1>1, LockInvariant, PTL

(* The lock is never held by a thread that is not going to release it,     *)
(* also when the thread for a pass cannot be started (server.py).          *)
THEOREM LockHasHolderHolds == Spec => []LockHasHolder
  <1>1. LockInv => LockHasHolder
    BY DEF LockInv, HolderKnown, Holds, LockHasHolder
  <1> QED
    BY <1>1, LockInvariant, PTL

----
(* A thread that has notes to judge or one at hand is in its pass, and so  *)
(* it holds the lock; the note at hand still has no voice.                 *)
AtPass(t) == IF t = Hourly THEN hourly = "pass" ELSE trig[t] = "pass"
Busy(t) == t \in unscanned \/ work[t] # {} \/ hand[t] # {}
BusyAtPass == \A t \in Threads : Busy(t) => AtPass(t)
HandUnvoiced == \A t \in Threads : \A h \in hand[t] : book[h[1]] = NoVoice

Walks ==
    /\ DOMAIN book \subseteq Notes /\ \A n \in DOMAIN book : book[n] \in Voices \cup {NoVoice}
    /\ recent \subseteq DOMAIN book
    /\ unscanned \subseteq Threads
    /\ work \in [Threads -> SUBSET DOMAIN book]
    /\ hand \in [Threads -> SUBSET ((DOMAIN book) \X Voices)]
    /\ failures \in 0..MaxFaults /\ restarts \in 0..MaxRestarts

SysInv == LockInv /\ Walks /\ BusyAtPass /\ HandUnvoiced

LEMMA PassHasLock ==
    ASSUME LockInv, NEW t \in Threads, AtPass(t)
    PROVE  lock = t
  BY ThreadAssumption DEF LockInv, HolderKnown, Holds, AtPass, Threads

LEMMA InitSysInv == SysInit => SysInv
  BY InitLockInv, SystemAssumption DEF SysInit, SysInv, Walks, BusyAtPass, Busy, HandUnvoiced

----
(* The threads and the lock: each step is one of Sweeps, or none, or a new *)
(* process.                                                                *)
LEMMA RestartLockInv == LockInv /\ Restart => LockInv'
  <1> SUFFICES ASSUME LockInv, Restart PROVE LockInv'
    OBVIOUS
  <1>1. /\ main' = "startHttp" /\ sig' = "none" /\ stop' = FALSE /\ http' = "unstarted"
        /\ quit' = FALSE /\ hourly' = "unstarted" /\ lock' = NoThread /\ fresh' = fresh
        /\ post' = [p \in Posts |-> "new"] /\ trig' = [p \in Posts |-> "none"]
    BY DEF Restart
  <1>2. TypeOK'
    BY <1>1 DEF LockInv, TypeOK
  <1>3. HolderKnown' /\ PassAfterSpawn'
    BY <1>1, ThreadAssumption DEF HolderKnown, PassAfterSpawn, Holds
  <1> QED
    BY <1>2, <1>3 DEF LockInv

LEMMA SweepsSteps ==
    ASSUME SysNext
    PROVE  [Next]_vars \/ Restart
  <1>1. ASSUME NEW t \in Threads, PassStep(t) \/ Skip(t) \/ Raise(t)
        PROVE  [Next]_vars
    BY <1>1 DEF PassStep, Begin, Scan, Read, Write, Skip, End, Raise, EndThread, Threads,
                Next, HourlyThread
  <1>2. ASSUME NEW n \in Notes, Arrive(n) \/ HourPasses(n)
        PROVE  [Next]_vars
    BY <1>2 DEF Arrive, HourPasses, Next
  <1> QED
    BY <1>1, <1>2 DEF SysNext, Stop, Beside, Next, HourlyThread

LEMMA LockInvSys == LockInv /\ [SysNext]_sysvars => LockInv'
  BY SweepsSteps, RestartLockInv, LockInvStep DEF sysvars

----
(* The walks.                                                              *)
LEMMA PassWalks ==
    ASSUME SysInv, NEW t \in Threads, PassStep(t) \/ Skip(t) \/ Raise(t)
    PROVE  Walks' /\ HandUnvoiced'
  <1> USE DEF SysInv, Walks, HandUnvoiced
  <1>1. CASE Begin(t) \/ Scan(t) \/ End(t)
    BY <1>1 DEF Begin, Scan, Due, End, notebook, walks, counts
  <1>2. ASSUME NEW n \in work[t], Read(t, n)
        PROVE  Walks' /\ HandUnvoiced'
    <2>1. n \in DOMAIN book
      OBVIOUS
    <2>2. CASE n \notin Poison /\ book[n] = NoVoice
      <3>1. PICK v \in Voices : hand' = [hand EXCEPT ![t] = {<<n, v>>}]
        BY <1>2, <2>2 DEF Read
      <3>2. \A u \in Threads : \A h \in hand'[u] : h \in hand[u] \/ h = <<n, v>>
        BY <3>1
      <3> QED
        BY <1>2, <2>1, <2>2, <3>1, <3>2 DEF Read, notebook, counts
    <2> QED
      BY <1>2, <2>2 DEF Read, notebook, counts
  <1>3. CASE Write(t)
    <2>1. PICK h \in hand[t] : book' = With(h[1], h[2]) /\ recent' = recent \cup {h[1]}
      BY <1>3 DEF Write
    <2>2. h[1] \in DOMAIN book /\ h[2] \in Voices
      OBVIOUS
    <2>3. DOMAIN book' = DOMAIN book /\ \A n \in DOMAIN book : book'[n] \in {book[n], h[2]}
      BY <2>1, <2>2 DEF With
    <2>4. \A u \in Threads \ {t} : hand[u] = {}
      BY <2>1, PassHasLock DEF BusyAtPass, Busy
    <2>5. hand' = [hand EXCEPT ![t] = {}] /\ UNCHANGED <<unscanned, work, counts>>
      BY <1>3 DEF Write
    <2>6. \A u \in Threads : hand'[u] = {}
      BY <2>4, <2>5
    <2> QED
      BY <2>1, <2>2, <2>3, <2>5, <2>6 DEF counts
  <1>4. CASE Skip(t) \/ Raise(t)
    BY <1>4, SystemAssumption DEF Skip, Raise, notebook
  <1> QED
    BY <1>1, <1>2, <1>3, <1>4 DEF PassStep

LEMMA OtherWalks ==
    ASSUME SysInv
    PROVE  /\ \A n \in Notes : Arrive(n) \/ HourPasses(n) => Walks' /\ HandUnvoiced'
           /\ Restart => Walks' /\ HandUnvoiced'
           /\ UNCHANGED <<notebook, walks, counts>> => Walks' /\ HandUnvoiced'
  <1> USE DEF SysInv, Walks, HandUnvoiced
  <1>1. ASSUME NEW n \in Notes, Arrive(n)
        PROVE  Walks' /\ HandUnvoiced'
    <2>1. /\ n \notin DOMAIN book /\ DOMAIN book' = DOMAIN book \cup {n}
          /\ book'[n] = NoVoice /\ \A m \in DOMAIN book : book'[m] = book[m]
      BY <1>1 DEF Arrive, With
    <2> QED
      BY <1>1, <2>1 DEF Arrive, walks, counts
  <1>2. ASSUME NEW n \in Notes, HourPasses(n)
        PROVE  Walks' /\ HandUnvoiced'
    BY <1>2 DEF HourPasses, walks, counts
  <1>3. CASE Restart
    BY <1>3, SystemAssumption DEF Restart, notebook
  <1>4. CASE UNCHANGED <<notebook, walks, counts>>
    BY <1>4 DEF notebook, walks, counts
  <1> QED
    BY <1>1, <1>2, <1>3, <1>4

(* Only the thread itself ends its pass, and it does so with empty hands.  *)
LEMMA BusyStep ==
    ASSUME SysInv, SysNext
    PROVE  BusyAtPass'
  <1> SUFFICES ASSUME NEW u \in Threads, Busy(u)' PROVE AtPass(u)'
    BY DEF BusyAtPass
  <1>1. TypeOK /\ (Busy(u) => AtPass(u))
    BY DEF SysInv, LockInv, BusyAtPass
  <1>2. ASSUME NEW t \in Threads, Begin(t)
        PROVE  AtPass(u)'
    <2>1. AtPass(t)'
      BY <1>1, <1>2, ThreadAssumption DEF Begin, BeginHourly, BeginTriggered, AtPass, Threads, TypeOK
    <2>2. u # t => Busy(u)
      BY <1>2 DEF Begin, Busy
    <2>3. AtPass(u) => AtPass(u)'
      BY <1>1, <1>2 DEF Begin, BeginHourly, BeginTriggered, AtPass, Threads, threads, TypeOK
    <2> QED
      BY <1>1, <2>1, <2>2, <2>3
  <1>3. ASSUME NEW t \in Threads, Scan(t) \/ (\E n \in work[t] : Read(t, n)) \/ Write(t) \/ Skip(t)
        PROVE  AtPass(u)'
    <2>1. UNCHANGED vars
      BY <1>3 DEF Scan, Read, Write, Skip
    <2>2. u # t => Busy(u)
      BY <1>3 DEF Scan, Read, Write, Skip, Busy, SysInv, Walks
    <2>3. AtPass(t)
      BY <1>3 DEF Scan, Read, Write, Skip, InPass, AtPass
    <2> QED
      BY <1>1, <2>1, <2>2, <2>3 DEF AtPass, vars, sweeps
  <1>4. ASSUME NEW t \in Threads, End(t) \/ Raise(t)
        PROVE  AtPass(u)'
    <2>1. u # t /\ Busy(u)
      BY <1>4 DEF End, Raise, Busy, walks, SysInv, Walks
    <2>2. AtPass(u) => AtPass(u)'
      BY <1>1, <1>4, <2>1, ThreadAssumption
         DEF End, Raise, EndThread, EndHourly, EndTriggered, AtPass, Threads, TypeOK
    <2> QED
      BY <1>1, <2>1, <2>2
  <1>5. ASSUME UNCHANGED walks, AtPass(u) => AtPass(u)'
        PROVE  AtPass(u)'
    BY <1>1, <1>5 DEF Busy, walks
  <1>6. ASSUME Beside(MainThread) \/ Beside(HttpThread) \/ Beside(TestStop) \/ Beside(WakeUp) \/ Stop
        PROVE  AtPass(u)'
    <2>1. hourly = "pass" => hourly' = "pass"
      BY <1>1, <1>6
         DEF Beside, Stop, MainThread, StartHttp, StartSweep, JoinHttp, JoinSweep, SetStop,
             AwaitServing, AwaitShutdown, MainStep, HttpThread, Serve, EndServing, TestStop,
             WakeUp, Sigterm, sweeps, TypeOK
    <2>2. UNCHANGED <<trig, walks>>
      BY <1>6
         DEF Beside, Stop, MainThread, StartHttp, StartSweep, JoinHttp, JoinSweep, SetStop,
             AwaitServing, AwaitShutdown, MainStep, HttpThread, Serve, EndServing, TestStop,
             WakeUp, Sigterm, sweeps
    <2> QED
      BY <1>5, <2>1, <2>2 DEF AtPass
  <1>7. ASSUME NEW p \in Posts, Beside(Accept(p)) \/ Beside(PostThread(p))
        PROVE  AtPass(u)'
    <2>1. UNCHANGED <<hourly, walks>>
      BY <1>7 DEF Beside, Accept, PostThread, TryLock, Spawn, SpawnFails, Answer
    <2>2. trig' = trig \/ (post[p] = "spawn" /\ trig' = [trig EXCEPT ![p] = "ready"])
      BY <1>7 DEF Beside, Accept, PostThread, TryLock, Spawn, SpawnFails, Answer
    <2>3. post[p] = "spawn" => trig[p] = "none"
      BY DEF SysInv, LockInv, PassAfterSpawn
    <2> QED
      BY <1>1, <1>5, <2>1, <2>2, <2>3 DEF AtPass, Threads, TypeOK
  <1>8. ASSUME NEW n \in Notes, Arrive(n) \/ HourPasses(n)
        PROVE  AtPass(u)'
    <2>1. UNCHANGED <<hourly, trig, walks>>
      BY <1>8 DEF Arrive, HourPasses, NoteArrives, vars, sweeps
    <2> QED
      BY <1>5, <2>1 DEF AtPass
  <1>9. CASE Restart
    BY <1>9 DEF Restart, Busy
  <1> QED
    BY <1>2, <1>3, <1>4, <1>6, <1>7, <1>8, <1>9 DEF SysNext, PassStep

LEMMA SysInvStep == SysInv /\ [SysNext]_sysvars => SysInv'
  <1> SUFFICES ASSUME SysInv, [SysNext]_sysvars PROVE SysInv'
    OBVIOUS
  <1>1. LockInv'
    BY LockInvSys DEF SysInv
  <1>2. CASE UNCHANGED sysvars
    BY <1>1, <1>2
       DEF sysvars, vars, sweeps, notebook, walks, counts, SysInv, Walks, BusyAtPass, Busy,
           AtPass, HandUnvoiced
  <1>3. CASE SysNext
    <2>1. Walks' /\ HandUnvoiced'
      BY <1>3, PassWalks, OtherWalks DEF SysNext, Beside, Stop
    <2> QED
      BY <1>1, <1>3, <2>1, BusyStep DEF SysInv
  <1> QED
    BY <1>2, <1>3

LEMMA SysInvariant == SysSpec => []SysInv
  BY InitSysInv, SysInvStep, PTL DEF SysSpec

(* Each thread's pass has its notes only while it holds the lock, also     *)
(* when a pass raises, the process is killed and another one starts        *)
(* (server.py, run_hourly_sweep and run_and_release; main.py).             *)
THEOREM SystemTypeCorrect == SysSpec => []SysTypeOK
  <1>1. SysInv => SysTypeOK
    BY PassHasLock DEF SysInv, Walks, BusyAtPass, Busy, AtPass, InPass, SysTypeOK, LockInv
  <1> QED
    BY <1>1, SysInvariant, PTL

----
(* The threads together keep the promise that one pass keeps: a note is    *)
(* given a voice once, by whichever pass of whichever process (server.py,  *)
(* VOICE.md section 8).                                                    *)
LEMMA PromiseStep ==
    ASSUME SysInv, SysNext
    PROVE  Promise!Next \/ UNCHANGED book
  <1>1. ASSUME NEW n \in Notes, Arrive(n)
        PROVE  Promise!Next
    BY <1>1 DEF Arrive, With, Promise!Next, Promise!Add, Promise!With
  <1>2. ASSUME NEW t \in Threads, Write(t)
        PROVE  Promise!Next
    <2>1. PICK h \in hand[t] : book' = With(h[1], h[2])
      BY <1>2 DEF Write
    <2>2. h[1] \in Notes /\ h[2] \in Voices /\ book[h[1]] = NoVoice
      BY DEF SysInv, Walks, HandUnvoiced
    <2>3. Promise!Give(h[1])
      BY <2>1, <2>2 DEF With, Promise!Give, Promise!With
    <2> QED
      BY <2>2, <2>3 DEF Promise!Next
  <1>3. \/ UNCHANGED book
        \/ \E n \in Notes : Arrive(n)
        \/ \E t \in Threads : Write(t)
    BY DEF SysNext, PassStep, Begin, Scan, Read, Skip, End, Raise, HourPasses, Restart, Stop,
           Beside, notebook
  <1> QED
    BY <1>1, <1>2, <1>3

THEOREM SystemImplementsBook == SysSpec => ImplementsBook
  <1>1. SysInit => Promise!Init
    BY DEF SysInit, Promise!Init
  <1>2. SysInv /\ [SysNext]_sysvars => [Promise!Next]_Promise!vars
    BY PromiseStep DEF sysvars, notebook, Promise!vars
  <1> QED
    BY <1>1, <1>2, SysInvariant, PTL DEF SysSpec, Promise!Spec, ImplementsBook
=============================================================================
