------------------------- MODULE DelayedDispatcher -------------------------
(***************************************************************************)
(* The one thread that runs every delayed task of the plugin               *)
(* (src/include/DelayedDispatcher.h): tasks wait in a queue ordered by     *)
(* their time; the worker sleeps until there is one, until the first is    *)
(* due, or until one that is due earlier is posted.  The steps are those   *)
(* between which another thread can act: what is done under the mutex, the *)
(* notification after it, the task itself.                                 *)
(***************************************************************************)
EXTENDS Integers, FiniteSets, FiniteSetsExt

CONSTANTS
    Posters,   \* the threads that post tasks
    MaxTime,   \* bound: the clock
    MaxPosts   \* bound: tasks

ASSUME DispatcherAssumption == MaxTime \in Nat /\ MaxPosts \in Nat

VARIABLES
    now,       \* Clock::now
    queue_D,   \* _queue: tasks [id, time]
    worker,    \* where the worker is, with the time it sleeps to or the task it runs
    woken,     \* a notification reached the waiting worker
    notifies,  \* the posters between the release of the mutex and notify_one
    posted,    \* counter of the tasks
    stopped,   \* the stop token
    done       \* history: per finished task the time it was due and the time it ran

dispatcherVars == <<now, queue_D, worker, woken, notifies, posted, stopped, done>>

WorkerAt(w) == [at |-> w, time |-> 0]
First == Min({e.time : e \in queue_D})
----------------------------------------------------------------------------
DispatcherInit ==
    /\ now = 0
    /\ queue_D = {}
    /\ worker = WorkerAt("loop")
    /\ woken = FALSE
    /\ notifies = {}
    /\ posted = 0
    /\ stopped = FALSE
    /\ done = {}

\* Mutant: only the first task of an empty queue is announced.
PostSilently(p, delay) ==
    /\ p \notin notifies
    /\ posted < MaxPosts
    /\ posted' = posted + 1
    /\ queue_D' = queue_D \cup {[id |-> posted', time |-> now + delay]}
    /\ notifies' = IF queue_D = {} THEN notifies \cup {p} ELSE notifies
    /\ UNCHANGED <<now, worker, woken, stopped, done>>

\* PostDelayed, under the mutex; then notify_one.
PostDelayed(p, delay) ==
    /\ p \notin notifies
    /\ posted < MaxPosts
    /\ posted' = posted + 1
    /\ queue_D' = queue_D \cup {[id |-> posted', time |-> now + delay]}
    /\ notifies' = notifies \cup {p}
    /\ UNCHANGED <<now, worker, woken, stopped, done>>

Waiting == worker.at \in {"idle", "sleep"}

Notify(p) ==
    /\ p \in notifies
    /\ notifies' = notifies \ {p}
    /\ woken' = (woken \/ Waiting)
    /\ UNCHANGED <<now, queue_D, worker, posted, stopped, done>>

\* Stop.
Stop_D ==
    /\ ~stopped
    /\ stopped' = TRUE
    /\ UNCHANGED <<now, queue_D, worker, woken, notifies, posted, done>>

\* RunLoop, from the test of the token on: no task; the first one is due; it is not.
\* Tasks of one time come in any order.
Look ==
    /\ worker.at = "loop"
    /\ woken' = FALSE
    /\ \/ /\ stopped
          /\ worker' = WorkerAt("end")
          /\ UNCHANGED queue_D
       \/ /\ ~stopped /\ queue_D = {}
          /\ worker' = WorkerAt("idle")
          /\ UNCHANGED queue_D
       \/ /\ ~stopped /\ queue_D # {} /\ First <= now
          /\ \E e \in queue_D :
              /\ e.time = First
              /\ queue_D' = queue_D \ {e}
              /\ worker' = [at |-> "run", time |-> e.time]
       \/ /\ ~stopped /\ queue_D # {} /\ First > now
          /\ worker' = [at |-> "sleep", time |-> First]
          /\ UNCHANGED queue_D
    /\ UNCHANGED <<now, notifies, posted, stopped, done>>

\* The predicates of wait and wait_until, which the worker tests when it is notified;
\* wait_until also ends with its time, both with a stop request.
Awake ==
    \/ stopped
    \/ worker.at = "idle" /\ woken /\ queue_D # {}
    \/ worker.at = "sleep" /\ (now >= worker.time
                                \/ (woken /\ queue_D # {} /\ First < worker.time))

\* A worker that is notified for nothing goes back to sleep.
Wake ==
    /\ Waiting
    /\ Awake \/ woken
    /\ worker' = IF Awake THEN WorkerAt("loop") ELSE worker
    /\ woken' = FALSE
    /\ UNCHANGED <<now, queue_D, notifies, posted, stopped, done>>

RunDelayed ==
    /\ worker.at = "run"
    /\ worker' = WorkerAt("loop")
    /\ done' = done \cup {[due |-> worker.time, ran |-> now]}
    /\ UNCHANGED <<now, queue_D, woken, notifies, posted, stopped>>

Tick ==
    /\ now < MaxTime
    /\ now' = now + 1
    /\ UNCHANGED <<queue_D, worker, woken, notifies, posted, stopped, done>>

DispatcherNext ==
    \/ \E p \in Posters : (\E delay \in 1..2 : PostDelayed(p, delay)) \/ Notify(p)
    \/ Stop_D
    \/ Look
    \/ Wake
    \/ RunDelayed
    \/ Tick

DispatcherSpec == DispatcherInit /\ [][DispatcherNext]_dispatcherVars
----------------------------------------------------------------------------
\* The worker never sleeps past the time of a task: while it waits, with nobody
\* about to notify it, it is for the first of the tasks that are posted, whatever was
\* posted while it went to sleep (PostDelayed, RunLoop).
NoneOversleeps ==
    Waiting /\ ~woken /\ notifies = {} /\ ~stopped /\ queue_D # {} =>
        worker.at = "sleep" /\ worker.time <= First
=============================================================================
