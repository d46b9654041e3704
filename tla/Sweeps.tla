------------------------------- MODULE Sweeps -------------------------------
(***************************************************************************)
(* The scorer's threads: main.py with run_hourly_sweep and do_POST of      *)
(* server.py.  The hourly thread and the threads that POST /score starts   *)
(* share one lock, taken by a handler thread and released by another; the  *)
(* main thread starts the rest, and runs the SIGTERM handler between two   *)
(* of its own steps.  A pass is its beginning and its end (Scoring is what *)
(* it does in between); one that raises ends like any other.               *)
(***************************************************************************)

CONSTANTS
    Posts,     \* the POST /score requests the process gets
    Hourly,    \* the hourly thread, as a holder of the lock
    NoThread   \* holder of the lock when it is free

ASSUME ThreadAssumption ==
    /\ Hourly \notin Posts
    /\ NoThread \notin Posts \cup {Hourly}

VARIABLES
    main,      \* where the main thread is, after signal.signal
    sig,       \* where the SIGTERM handler is, which it runs
    stop,      \* stop_event
    http,      \* the HTTP thread
    quit,      \* httpd.shutdown() was called
    hourly,    \* the hourly thread
    post,      \* post[p]: the handler thread of request p
    trig,      \* trig[p]: the thread it started for a pass
    lock,      \* who holds sweep_lock: a request's two threads count as one
    fresh      \* a note came to the vault since the last pass began

threads == <<main, sig, stop, http, quit>>
sweeps == <<hourly, post, trig, lock, fresh>>
vars == <<threads, sweeps>>

Init ==
    /\ main = "startHttp"
    /\ sig = "none"
    /\ stop = FALSE
    /\ http = "unstarted"
    /\ quit = FALSE
    /\ hourly = "unstarted"
    /\ post = [p \in Posts |-> "new"]
    /\ trig = [p \in Posts |-> "none"]
    /\ lock = NoThread
    /\ fresh = FALSE

Running == main # "exited"

----
(* The main thread.  It takes no step of its own while it runs the handler.*)

Interrupted == sig \in {"stop", "wait", "shutdown"}

MainStep(from, to) ==
    /\ main = from /\ ~Interrupted
    /\ main' = to
    /\ UNCHANGED <<sig, quit, post, trig, lock, fresh>>

StartHttp ==
    /\ MainStep("startHttp", "startSweep")
    /\ http' = "started"
    /\ UNCHANGED <<stop, hourly>>

StartSweep ==
    /\ MainStep("startSweep", "joinHttp")
    /\ hourly' = "test"
    /\ UNCHANGED <<stop, http>>

JoinHttp ==
    /\ http = "ended"
    /\ MainStep("joinHttp", "joinSweep")
    /\ stop' = TRUE
    /\ UNCHANGED <<http, hourly>>

(* main returns, and with it end the daemon threads, wherever they are.    *)
JoinSweep ==
    /\ hourly = "ended"
    /\ MainStep("joinSweep", "exited")
    /\ UNCHANGED <<stop, http, hourly>>

Sigterm ==
    /\ Running /\ sig = "none"
    /\ sig' = "stop"
    /\ UNCHANGED <<main, stop, http, quit, sweeps>>

SetStop ==
    /\ sig = "stop"
    /\ sig' = "wait"
    /\ stop' = TRUE
    /\ UNCHANGED <<main, http, quit, sweeps>>

AwaitServing ==
    /\ sig = "wait"
    /\ http \in {"serving", "ended"}
    /\ sig' = "shutdown"
    /\ quit' = TRUE
    /\ UNCHANGED <<main, stop, http, sweeps>>

AwaitShutdown ==
    /\ sig = "shutdown"
    /\ http = "ended"
    /\ sig' = "done"
    /\ UNCHANGED <<main, stop, http, quit, sweeps>>

(* serving_started is set, then serve_forever runs until shutdown.         *)
Serve ==
    /\ Running /\ http = "started"
    /\ http' = "serving"
    /\ UNCHANGED <<main, sig, stop, quit, sweeps>>

EndServing ==
    /\ Running /\ http = "serving" /\ quit
    /\ http' = "ended"
    /\ UNCHANGED <<main, sig, stop, quit, sweeps>>

----
(* POST /score: a poke.                                                    *)

Accept(p) ==
    /\ Running /\ http = "serving"
    /\ post[p] = "new"
    /\ post' = [post EXCEPT ![p] = "acquire"]
    /\ UNCHANGED <<threads, hourly, trig, lock, fresh>>

TryLock_Blind(p) ==
    /\ Running /\ post[p] = "acquire"
    /\ lock' = p
    /\ post' = [post EXCEPT ![p] = "spawn"]
    /\ UNCHANGED <<threads, hourly, trig, fresh>>

TryLock_Blocking(p) ==
    /\ Running /\ post[p] = "acquire"
    /\ lock = NoThread
    /\ lock' = p
    /\ post' = [post EXCEPT ![p] = "spawn"]
    /\ UNCHANGED <<threads, hourly, trig, fresh>>

(* A pass that is running already makes this one superfluous.              *)
TryLock(p) ==
    /\ Running /\ post[p] = "acquire"
    /\ IF lock = NoThread
       THEN lock' = p /\ post' = [post EXCEPT ![p] = "spawn"]
       ELSE UNCHANGED lock /\ post' = [post EXCEPT ![p] = "answer"]
    /\ UNCHANGED <<threads, hourly, trig, fresh>>

Spawn(p) ==
    /\ Running /\ post[p] = "spawn"
    /\ trig' = [trig EXCEPT ![p] = "ready"]
    /\ post' = [post EXCEPT ![p] = "answer"]
    /\ UNCHANGED <<threads, hourly, lock, fresh>>

SpawnFails_Held(p) ==
    /\ Running /\ post[p] = "spawn"
    /\ post' = [post EXCEPT ![p] = "answer"]
    /\ UNCHANGED <<threads, hourly, trig, lock, fresh>>

(* No thread to be had: nobody else would release the lock.                *)
SpawnFails(p) ==
    /\ Running /\ post[p] = "spawn"
    /\ lock' = NoThread
    /\ post' = [post EXCEPT ![p] = "answer"]
    /\ UNCHANGED <<threads, hourly, trig, fresh>>

Answer(p) ==
    /\ Running /\ post[p] = "answer"
    /\ post' = [post EXCEPT ![p] = "done"]
    /\ UNCHANGED <<threads, hourly, trig, lock, fresh>>

BeginTriggered(p) ==
    /\ Running /\ trig[p] = "ready"
    /\ trig' = [trig EXCEPT ![p] = "pass"]
    /\ fresh' = FALSE
    /\ UNCHANGED <<threads, hourly, post, lock>>

EndTriggered(p) ==
    /\ Running /\ trig[p] = "pass"
    /\ trig' = [trig EXCEPT ![p] = "ended"]
    /\ lock' = NoThread
    /\ UNCHANGED <<threads, hourly, post, fresh>>

----
(* The hourly thread.                                                      *)

TestStop_Never ==
    /\ Running /\ hourly = "test"
    /\ hourly' = "lock"
    /\ UNCHANGED <<threads, post, trig, lock, fresh>>

TestStop ==
    /\ Running /\ hourly = "test"
    /\ hourly' = IF stop THEN "ended" ELSE "lock"
    /\ UNCHANGED <<threads, post, trig, lock, fresh>>

BeginHourly ==
    /\ Running /\ hourly = "lock"
    /\ lock = NoThread
    /\ lock' = Hourly
    /\ hourly' = "pass"
    /\ fresh' = FALSE
    /\ UNCHANGED <<threads, post, trig>>

EndHourly ==
    /\ Running /\ hourly = "pass"
    /\ lock' = NoThread
    /\ hourly' = "sleep"
    /\ UNCHANGED <<threads, post, trig, fresh>>

WakeUp_OnStop ==
    /\ Running /\ hourly = "sleep"
    /\ stop
    /\ hourly' = "test"
    /\ UNCHANGED <<threads, post, trig, lock, fresh>>

(* stop_event.wait: the interval is over, or the process is to stop.       *)
WakeUp ==
    /\ Running /\ hourly = "sleep"
    /\ hourly' = "test"
    /\ UNCHANGED <<threads, post, trig, lock, fresh>>

(* The ingest service places a note; the poke for it may be any request,   *)
(* or get lost.                                                            *)
NoteArrives ==
    /\ Running /\ ~fresh
    /\ fresh' = TRUE
    /\ UNCHANGED <<threads, hourly, post, trig, lock>>

MainThread ==
    \/ StartHttp \/ StartSweep \/ JoinHttp \/ JoinSweep
    \/ SetStop \/ AwaitServing \/ AwaitShutdown
HttpThread == Serve \/ EndServing
PostThread(p) == TryLock(p) \/ Spawn(p) \/ SpawnFails(p) \/ Answer(p)
HourlyThread == TestStop \/ BeginHourly \/ WakeUp

Next ==
    \/ MainThread \/ HttpThread \/ HourlyThread \/ EndHourly
    \/ Sigterm \/ NoteArrives
    \/ \E p \in Posts : Accept(p) \/ PostThread(p) \/ BeginTriggered(p) \/ EndTriggered(p)

Spec == Init /\ [][Next]_vars

(* Threads get to run, and the interval passes.  That a pass ends is left  *)
(* to the properties that need it: nothing bounds a decoder or a backlog.  *)
FairSpec ==
    /\ Spec
    /\ WF_vars(MainThread) /\ WF_vars(HttpThread) /\ WF_vars(HourlyThread)
    /\ \A p \in Posts : WF_vars(PostThread(p)) /\ WF_vars(BeginTriggered(p))
PassesEnd == WF_vars(EndHourly) /\ \A p \in Posts : WF_vars(EndTriggered(p))

----
(* Properties.                                                             *)

(* Types, and what the main thread can tell of the others by where it is.  *)
TypeOK ==
    /\ main \in {"startHttp", "startSweep", "joinHttp", "joinSweep", "exited"}
    /\ sig \in {"none", "stop", "wait", "shutdown", "done"}
    /\ stop \in BOOLEAN /\ quit \in BOOLEAN /\ fresh \in BOOLEAN
    /\ http \in {"unstarted", "started", "serving", "ended"}
    /\ hourly \in {"unstarted", "test", "lock", "pass", "sleep", "ended"}
    /\ post \in [Posts -> {"new", "acquire", "spawn", "answer", "done"}]
    /\ trig \in [Posts -> {"none", "ready", "pass", "ended"}]
    /\ lock \in Posts \cup {Hourly, NoThread}
    /\ http = "unstarted" <=> main = "startHttp"
    /\ hourly = "unstarted" <=> main \in {"startHttp", "startSweep"}
    /\ main \in {"joinSweep", "exited"} => http = "ended" /\ stop

(* Two passes never run at once, for all that one thread takes the lock    *)
(* and another releases it, or the hourly thread does both (VOICE.md       *)
(* section 8; a second writer would splice a note twice).                  *)
Passes == {p \in Posts : trig[p] = "pass"} \cup (IF hourly = "pass" THEN {Hourly} ELSE {})
OnePass == \A t, u \in Passes : t = u

(* The lock is held by a thread that is going to release it, never by one  *)
(* that has ended or could not be started.                                 *)
LockHasHolder ==
    /\ lock = Hourly => hourly = "pass"
    /\ \A p \in Posts : lock = p => post[p] = "spawn" \/ trig[p] \in {"ready", "pass"}

(* "It is a poke, not a delivery": a POST is answered though the pass that *)
(* runs, or the one it starts, should never end.                           *)
PokeAnswered == \A p \in Posts : post[p] = "acquire" ~> post[p] = "done" \/ ~Running

(* A pass begins after every note that comes, though its poke was lost, or *)
(* found a pass that had begun too early: until the process is to stop.    *)
WorkIsSwept == PassesEnd => (fresh ~> ~fresh \/ stop)

(* A SIGTERM ends the process, if it comes when the HTTP thread has been   *)
(* started.                                                                *)
StopsWhenServing == PassesEnd => (sig # "none" /\ http # "unstarted" ~> ~Running)

(* The handler waits for the HTTP thread because "shutdown() before that   *)
(* deadlocks" (main.py): a SIGTERM ends the process.                       *)
StopsOnSigterm == PassesEnd => (sig # "none" ~> ~Running)
=============================================================================
