------------------------------- MODULE System -------------------------------
(***************************************************************************)
(* The scorer as a whole, from a note's 200 to its voice: the threads of   *)
(* Sweeps, each with its pass, over the vault that the ingest service      *)
(* fills; passes that raise, and a process that is killed, hangs at its    *)
(* end, or exits, and is started anew by the cluster.                      *)
(*                                                                         *)
(* Nothing but the lock keeps two passes apart, so each thread has its own *)
(* list of notes and its own note at hand.  What a pass computes is in     *)
(* Scoring; here it is any of Voices.  The owner edits nothing.            *)
(***************************************************************************)
EXTENDS Sweeps, Integers

CONSTANTS
    Notes,        \* the notes that come
    Recorded,     \* those with a recording, not a transcription alone
    Poison,       \* those whose clip breaks the embedder, at every attempt
    Voices,       \* what the scorer gives them
    NoVoice,      \* a note that has none
    MaxFaults,    \* bound: passes that raise and notes that cannot be written
    MaxRestarts   \* bound: how often the process is started anew

ASSUME SystemAssumption ==
    /\ Recorded \subseteq Notes /\ Poison \subseteq Recorded
    /\ NoVoice \notin Voices
    /\ MaxFaults \in Nat /\ MaxRestarts \in Nat

VARIABLES
    book,         \* the voices of the notes in the vault
    recent,       \* the notes changed within the last hour
    unscanned,    \* threads whose pass has yet to list its notes
    work,         \* work[t]: the notes that the pass of t has yet to judge
    hand,         \* hand[t]: the note it is about to replace, with its voice
    failures, restarts   \* how often each has happened

Threads == Posts \cup {Hourly}
notebook == <<book, recent>>
walks == <<unscanned, work, hand>>
counts == <<failures, restarts>>
sysvars == <<vars, notebook, walks, counts>>

SysInit ==
    /\ Init
    /\ book = <<>> /\ recent = {}
    /\ unscanned = {}
    /\ work = [t \in Threads |-> {}]
    /\ hand = [t \in Threads |-> {}]
    /\ failures = 0 /\ restarts = 0

----
(* The pass of thread t, between its beginning and its end.                *)

InPass(t) == Running /\ IF t = Hourly THEN hourly = "pass" ELSE trig[t] = "pass"

Begin(t) ==
    /\ IF t = Hourly THEN BeginHourly ELSE BeginTriggered(t)
    /\ unscanned' = unscanned \cup {t}
    /\ UNCHANGED <<notebook, work, hand, counts>>

Due == {n \in (Recorded \cap DOMAIN book) \ recent : book[n] = NoVoice}

Scan(t) ==
    /\ InPass(t) /\ t \in unscanned
    /\ unscanned' = unscanned \ {t}
    /\ work' = [work EXCEPT ![t] = Due]
    /\ UNCHANGED <<vars, notebook, hand, counts>>

(* The note is judged, which raises for a poison clip; then it is read     *)
(* again, for it may have a voice by now.                                  *)
Read(t, n) ==
    /\ InPass(t) /\ n \in work[t] /\ hand[t] = {}
    /\ work' = [work EXCEPT ![t] = @ \ {n}]
    /\ IF n \notin Poison /\ book[n] = NoVoice
       THEN \E v \in Voices : hand' = [hand EXCEPT ![t] = {<<n, v>>}]
       ELSE UNCHANGED hand
    /\ UNCHANGED <<vars, notebook, unscanned, counts>>

With(n, v) == [m \in DOMAIN book \cup {n} |-> IF m = n THEN v ELSE book[m]]

Write(t) ==
    /\ InPass(t)
    /\ \E h \in hand[t] : book' = With(h[1], h[2]) /\ recent' = recent \cup {h[1]}
    /\ hand' = [hand EXCEPT ![t] = {}]
    /\ UNCHANGED <<vars, unscanned, work, counts>>

(* A note that cannot be judged, read or written is left to the next pass. *)
Skip(t) ==
    /\ InPass(t) /\ failures < MaxFaults
    /\ failures' = failures + 1
    /\ \/ \E n \in work[t] : work' = [work EXCEPT ![t] = @ \ {n}] /\ UNCHANGED hand
       \/ hand[t] # {} /\ hand' = [hand EXCEPT ![t] = {}] /\ UNCHANGED work
    /\ UNCHANGED <<vars, notebook, unscanned, restarts>>

EndThread(t) == IF t = Hourly THEN EndHourly ELSE EndTriggered(t)

End(t) ==
    /\ t \notin unscanned /\ work[t] = {} /\ hand[t] = {}
    /\ EndThread(t)
    /\ UNCHANGED <<notebook, walks, counts>>

(* A pass that raises: "pass failed", and the lock is released.            *)
Raise(t) ==
    /\ failures < MaxFaults
    /\ failures' = failures + 1
    /\ EndThread(t)
    /\ unscanned' = unscanned \ {t}
    /\ work' = [work EXCEPT ![t] = {}]
    /\ hand' = [hand EXCEPT ![t] = {}]
    /\ UNCHANGED <<notebook, restarts>>

PassStep(t) ==
    Begin(t) \/ Scan(t) \/ (\E n \in work[t] : Read(t, n)) \/ Write(t) \/ End(t)

----
(* The threads otherwise, the vault, the process.                          *)

Beside(action) == action /\ UNCHANGED <<notebook, walks, counts>>

(* The 200 for a note: it is in the vault, and a poke may or may not come. *)
Arrive(n) ==
    /\ n \notin DOMAIN book
    /\ book' = With(n, NoVoice)
    /\ recent' = recent \cup {n}
    /\ IF fresh \/ ~Running THEN UNCHANGED vars ELSE NoteArrives
    /\ UNCHANGED <<walks, counts>>

HourPasses(n) ==
    /\ n \in recent
    /\ recent' = recent \ {n}
    /\ UNCHANGED <<vars, book, walks, counts>>

(* The process is gone, or is killed: at any time, or by the cluster when  *)
(* a SIGTERM has not ended it within the grace period.  A new one starts.  *)
Restart ==
    /\ restarts < MaxRestarts
    /\ restarts' = restarts + 1
    /\ main' = "startHttp" /\ sig' = "none" /\ stop' = FALSE
    /\ http' = "unstarted" /\ quit' = FALSE /\ hourly' = "unstarted"
    /\ post' = [p \in Posts |-> "new"] /\ trig' = [p \in Posts |-> "none"]
    /\ lock' = NoThread
    /\ unscanned' = {}
    /\ work' = [t \in Threads |-> {}] /\ hand' = [t \in Threads |-> {}]
    /\ UNCHANGED <<fresh, notebook, failures>>

Replaced == Restart /\ (sig # "none" \/ ~Running)

Stop == restarts < MaxRestarts /\ Beside(Sigterm)

SysNext ==
    \/ \E t \in Threads : PassStep(t) \/ Skip(t) \/ Raise(t)
    \/ Beside(MainThread) \/ Beside(HttpThread) \/ Beside(TestStop) \/ Beside(WakeUp)
    \/ \E p \in Posts : Beside(Accept(p)) \/ Beside(PostThread(p))
    \/ \E n \in Notes : Arrive(n) \/ HourPasses(n)
    \/ Stop \/ Restart

SysSpec == SysInit /\ [][SysNext]_sysvars

(* As in Sweeps: threads get to run and the interval passes; the decoder   *)
(* returns, so that a pass goes on; hours go by; and a process that was    *)
(* told to stop is replaced.  Pokes may all be lost.                       *)
FairSys ==
    /\ SysSpec
    /\ WF_sysvars(Beside(MainThread)) /\ WF_sysvars(Beside(HttpThread))
    /\ WF_sysvars(Beside(TestStop) \/ Beside(WakeUp))
    /\ \A p \in Posts : WF_sysvars(Beside(PostThread(p)))
    /\ \A t \in Threads : WF_sysvars(PassStep(t))
    /\ \A n \in Notes : WF_sysvars(HourPasses(n))
    /\ WF_sysvars(Replaced)

----
(* Properties.                                                             *)

(* Types; and what a pass has at hand goes with the pass that has it.      *)
SysTypeOK ==
    /\ TypeOK
    /\ DOMAIN book \subseteq Notes /\ \A n \in DOMAIN book : book[n] \in Voices \cup {NoVoice}
    /\ recent \subseteq DOMAIN book
    /\ unscanned \subseteq Threads
    /\ work \in [Threads -> SUBSET DOMAIN book]
    /\ hand \in [Threads -> SUBSET ((DOMAIN book) \X Voices)]
    /\ failures \in 0..MaxFaults /\ restarts \in 0..MaxRestarts
    /\ Running => \A t \in Threads :
          t \in unscanned \/ work[t] # {} \/ hand[t] # {} => InPass(t) /\ lock = t

(* The promise of VoiceBook, by a process with several threads: no note is *)
(* given a second voice, by a second pass or by the next process.          *)
Promise == INSTANCE VoiceBook WITH NoteNames <- Notes, edits <- 0
ImplementsBook == Promise!Spec

(* A note that was answered, and has a recording that can be judged, is    *)
(* given a voice in the end, though its poke is lost or comes within the   *)
(* hour in which the note is left alone, other notes never are given one,  *)
(* passes raise and notes are skipped now and then and the process is      *)
(* replaced.  (Of a note or record that makes every pass raise, Blocked in *)
(* Scoring, the ingest service writes none.)                               *)
AnsweredIsVoiced ==
    \A n \in Recorded \ Poison : n \in DOMAIN book ~> n \in DOMAIN book /\ book[n] # NoVoice
=============================================================================
