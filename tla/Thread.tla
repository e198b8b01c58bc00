------------------------------- MODULE Thread -------------------------------
(***************************************************************************)
(* sylar::Thread and Semaphore (src/sylar/thread.h, thread.cc), composed   *)
(* with Scheduler::start and stop (src/sylar/scheduler.cc), which create   *)
(* and join the pool's workers; other threads own a Thread of their own.   *)
(*                                                                         *)
(* The constructor waits on the object's semaphore until the new thread    *)
(* has posted it in run(), which uses the object through a raw pointer:    *)
(* touched records a use of an object that is gone.  start() waits in      *)
(* these constructors with m_mutex held, the mutex a worker needs for its  *)
(* first task.                                                             *)
(***************************************************************************)
EXTENDS Naturals, Sequences, FiniteSets

CONSTANTS
    N,             \* m_thread_count of the pool, use_caller false
    Own,           \* Threads the application makes, each on a thread of its own
    MaxFaults      \* bound on failed pthread_create and interrupted sem_wait

ASSUME ThreadAssumption ==
    /\ N \in Nat /\ MaxFaults \in Nat
    /\ Own \cap (1..N) = {}

Workers == 1..N
Threads == Workers \cup Own

VARIABLES
    obj,          \* a Thread object: "none", "alive" or "freed"
    m_id,         \* m_id has been set
    m_cb,         \* m_cb still holds the callback
    m_thread,     \* m_thread is not 0
    sem,          \* the value of m_semaphore
    tpc,          \* the new thread's place in run()
    cpc,          \* the owner of a Thread in Own: its place
    mpc,          \* the thread that calls start() and stop()
    idx,          \* its loop variable
    locked,       \* it holds m_mutex
    m_stopping,
    m_threads,    \* the Threads in the vector, a null entry is 0
    m_thread_ids, \* for each id, whether it was set when it was read
    thrs,         \* stop()'s local copy of m_threads
    faults,
    touched,      \* history: Threads used by their thread when they were gone
    interrupted,  \* history: Threads whose constructor threw in sem_wait
    named         \* history: Threads whose callback called SetName when gone

objVars == <<obj, m_id, m_cb, m_thread, sem>>
poolVars == <<mpc, idx, locked, m_stopping, m_threads, m_thread_ids, thrs>>
histVars == <<touched, interrupted, named>>
vars == <<objVars, tpc, cpc, poolVars, faults, histVars>>

Places == {"none", "name", "id", "swap", "notify", "cb", "running", "done"}

\* The type invariant.
TypeOK ==
    /\ obj \in [Threads -> {"none", "alive", "freed"}]
    /\ m_id \in [Threads -> BOOLEAN] /\ m_cb \in [Threads -> BOOLEAN]
    /\ m_thread \in [Threads -> BOOLEAN]
    /\ sem \in [Threads -> 0..1]
    /\ tpc \in [Threads -> Places]
    /\ cpc \in [Own -> {"out", "wait", "owns", "joined", "gone"}]
    /\ mpc \in {"out", "create", "wait", "started", "threw", "stop", "join",
                "end", "stopped", "crash"}
    /\ idx \in 0..(N + 1)
    /\ locked \in BOOLEAN /\ m_stopping \in BOOLEAN
    /\ m_threads \in Seq(0..N) /\ thrs \in Seq(0..N)
    /\ m_thread_ids \in Seq(BOOLEAN)
    /\ faults \in 0..MaxFaults
    /\ touched \subseteq Threads /\ interrupted \subseteq Threads
    /\ named \subseteq Threads

Init ==
    /\ obj = [t \in Threads |-> "none"]
    /\ m_id = [t \in Threads |-> FALSE] /\ m_cb = [t \in Threads |-> FALSE]
    /\ m_thread = [t \in Threads |-> FALSE]
    /\ sem = [t \in Threads |-> 0]
    /\ tpc = [t \in Threads |-> "none"]
    /\ cpc = [t \in Own |-> "out"]
    /\ mpc = "out" /\ idx = 0 /\ locked = FALSE /\ m_stopping = TRUE
    /\ m_threads = <<>> /\ m_thread_ids = <<>> /\ thrs = <<>>
    /\ faults = 0
    /\ touched = {} /\ interrupted = {} /\ named = {}

-----------------------------------------------------------------------------
(* The constructor and the destructor, on the creating thread *)

\* pthread_create succeeds and run() starts with this.
Construct(t) ==
    /\ obj' = [obj EXCEPT ![t] = "alive"]
    /\ m_cb' = [m_cb EXCEPT ![t] = TRUE]
    /\ m_thread' = [m_thread EXCEPT ![t] = TRUE]
    /\ tpc' = [tpc EXCEPT ![t] = "name"]
    /\ UNCHANGED <<m_id, sem>>

\* Semaphore::wait.
Waited(t) ==
    /\ sem[t] > 0
    /\ sem' = [sem EXCEPT ![t] = @ - 1]
    /\ UNCHANGED <<obj, m_id, m_cb, m_thread>>

\* sem_wait returns an error, wait() throws, and so does the constructor: the
\* members are destroyed and the memory is freed; ~Thread is not run.
Interrupted(t) ==
    /\ faults < MaxFaults /\ faults' = faults + 1
    /\ obj' = [obj EXCEPT ![t] = "freed"]
    /\ interrupted' = interrupted \cup {t}
    /\ UNCHANGED <<m_id, m_cb, m_thread, sem>>

\* pthread_create fails: the constructor throws before there is a thread.
CreateFails == faults < MaxFaults /\ faults' = faults + 1

\* join: the thread is over, m_thread is 0 from now on.
Joined(t) == m_thread[t] => tpc[t] = "done"

-----------------------------------------------------------------------------
(* run(), on the new thread *)

\* Mutant: the semaphore is posted before m_cb is taken over.
NotifyBeforeSwap(at) ==
    CASE at = "name" -> "id" [] at = "id" -> "notify" [] at = "notify" -> "swap"
      [] at = "swap" -> "cb"

\* Mutant: it is posted when the callback has returned.
NotifyAfterCb(at) ==
    CASE at = "name" -> "id" [] at = "id" -> "swap" [] at = "swap" -> "cb"
      [] at = "notify" -> "done"

\* The order of run(): t_thread and the name, m_id, the callback, the semaphore.
Then(at) ==
    CASE at = "name" -> "id" [] at = "id" -> "swap" [] at = "swap" -> "notify"
      [] at = "notify" -> "cb"

\* A statement of run() that goes through the raw pointer.
Uses(t, at) ==
    /\ tpc[t] = at
    /\ tpc' = [tpc EXCEPT ![t] = Then(at)]
    /\ touched' = IF obj[t] = "freed" THEN touched \cup {t} ELSE touched
    /\ UNCHANGED <<obj, m_thread, cpc, poolVars, faults, interrupted, named>>

ReadName(t) == Uses(t, "name") /\ UNCHANGED <<m_id, m_cb, sem>>

SetId(t) ==
    /\ Uses(t, "id")
    /\ m_id' = [m_id EXCEPT ![t] = TRUE]
    /\ UNCHANGED <<m_cb, sem>>

SwapCb(t) ==
    /\ Uses(t, "swap")
    /\ m_cb' = [m_cb EXCEPT ![t] = FALSE]
    /\ UNCHANGED <<m_id, sem>>

\* Semaphore::notify.
Notify(t) ==
    /\ Uses(t, "notify")
    /\ sem' = [sem EXCEPT ![t] = @ + 1]
    /\ UNCHANGED <<m_id, m_cb>>

\* cb() of a worker is Scheduler::run: it takes m_mutex for its first task ...
EnterRun(t) ==
    /\ t \in Workers /\ tpc[t] = "cb" /\ ~locked
    /\ tpc' = [tpc EXCEPT ![t] = "running"]
    /\ UNCHANGED <<objVars, cpc, poolVars, faults, histVars>>

\* ... and returns once the pool is stopping.
LeaveRun(t) ==
    /\ tpc[t] = "running" /\ m_stopping
    /\ tpc' = [tpc EXCEPT ![t] = "done"]
    /\ UNCHANGED <<objVars, cpc, poolVars, faults, histVars>>

\* The callback of a Thread in Own: it may call SetName, which writes to the
\* object t_thread points to, ...
SetName(t) ==
    /\ t \in Own /\ tpc[t] = "cb"
    /\ named' = IF obj[t] = "freed" THEN named \cup {t} ELSE named
    /\ UNCHANGED <<objVars, tpc, cpc, poolVars, faults, touched, interrupted>>

\* ... and returns.
ReturnCb(t) ==
    /\ t \in Own /\ tpc[t] = "cb"
    /\ tpc' = [tpc EXCEPT ![t] = "done"]
    /\ UNCHANGED <<objVars, cpc, poolVars, faults, histVars>>

RunStep(t) ==
    \/ ReadName(t) \/ SetId(t) \/ SwapCb(t) \/ Notify(t)
    \/ EnterRun(t) \/ LeaveRun(t) \/ ReturnCb(t)

-----------------------------------------------------------------------------
(* Scheduler::start and stop *)

\* start(): m_mutex is held to the end of the loop.
Start ==
    /\ mpc = "out" /\ m_stopping
    /\ locked' = TRUE
    /\ m_stopping' = FALSE
    /\ m_threads' = [i \in Workers |-> 0]
    /\ idx' = 1
    /\ mpc' = "create"
    /\ UNCHANGED <<objVars, tpc, cpc, m_thread_ids, thrs, faults, histVars>>

CreateWorker ==
    /\ mpc = "create" /\ idx <= N
    /\ Construct(idx)
    /\ mpc' = "wait"
    /\ UNCHANGED <<cpc, idx, locked, m_stopping, m_threads, m_thread_ids, thrs,
                   faults, histVars>>

\* The constructor returns; the pointer and the id are stored.
StoreWorker ==
    /\ mpc = "wait"
    /\ Waited(idx)
    /\ m_threads' = [m_threads EXCEPT ![idx] = idx]
    /\ m_thread_ids' = Append(m_thread_ids, m_id[idx])
    /\ idx' = idx + 1
    /\ mpc' = "create"
    /\ UNCHANGED <<tpc, cpc, locked, m_stopping, thrs, faults, histVars>>

\* The constructor throws, and the exception leaves start(): the lock is
\* released, and the entries from here on stay null.
WorkerFails ==
    /\ \/ mpc = "create" /\ idx <= N /\ CreateFails
          /\ UNCHANGED <<objVars, interrupted>>
       \/ mpc = "wait" /\ Interrupted(idx)
    /\ locked' = FALSE
    /\ mpc' = "threw"
    /\ UNCHANGED <<tpc, cpc, idx, m_stopping, m_threads, m_thread_ids, thrs,
                   touched, named>>

StartReturn ==
    /\ mpc = "create" /\ idx > N
    /\ locked' = FALSE
    /\ mpc' = "started"
    /\ UNCHANGED <<objVars, tpc, cpc, idx, m_stopping, m_threads, m_thread_ids,
                   thrs, faults, histVars>>

\* stop(), called also by an application that has caught start()'s exception.
Stop ==
    /\ mpc \in {"started", "threw"}
    /\ m_stopping' = TRUE
    /\ mpc' = "stop"
    /\ UNCHANGED <<objVars, tpc, cpc, idx, locked, m_threads, m_thread_ids, thrs,
                   faults, histVars>>

\* thrs.swap(m_threads) under m_mutex.
TakeThreads ==
    /\ mpc = "stop" /\ ~locked
    /\ thrs' = m_threads /\ m_threads' = <<>>
    /\ idx' = 1
    /\ mpc' = "join"
    /\ UNCHANGED <<objVars, tpc, cpc, locked, m_stopping, m_thread_ids, faults,
                   histVars>>

\* i->join(); a null entry is dereferenced.
JoinWorker ==
    /\ mpc = "join" /\ idx <= Len(thrs)
    /\ IF thrs[idx] = 0
       THEN mpc' = "crash" /\ UNCHANGED <<m_thread, idx>>
       ELSE /\ Joined(thrs[idx])
            /\ m_thread' = [m_thread EXCEPT ![thrs[idx]] = FALSE]
            /\ idx' = idx + 1
            /\ UNCHANGED mpc
    /\ UNCHANGED <<obj, m_id, m_cb, sem, tpc, cpc, locked, m_stopping, m_threads,
                   m_thread_ids, thrs, faults, histVars>>

\* stop() returns and thrs is destroyed.
StopReturn ==
    /\ mpc = "join" /\ idx > Len(thrs)
    /\ obj' = [t \in Threads |-> IF t \in Workers /\ obj[t] = "alive"
                                 THEN "freed" ELSE obj[t]]
    /\ mpc' = "stopped"
    /\ UNCHANGED <<m_id, m_cb, m_thread, sem, tpc, cpc, idx, locked, m_stopping,
                   m_threads, m_thread_ids, thrs, faults, histVars>>

PoolStep ==
    \/ CreateWorker \/ StoreWorker \/ StartReturn
    \/ TakeThreads \/ JoinWorker \/ StopReturn

-----------------------------------------------------------------------------
(* A Thread of the application *)

CreateOwn(t) ==
    /\ cpc[t] = "out"
    /\ Construct(t)
    /\ cpc' = [cpc EXCEPT ![t] = "wait"]
    /\ UNCHANGED <<poolVars, faults, histVars>>

OwnConstructed(t) ==
    /\ cpc[t] = "wait"
    /\ Waited(t)
    /\ cpc' = [cpc EXCEPT ![t] = "owns"]
    /\ UNCHANGED <<tpc, poolVars, faults, histVars>>

OwnFails(t) ==
    /\ \/ cpc[t] = "out" /\ CreateFails /\ UNCHANGED <<objVars, interrupted>>
       \/ cpc[t] = "wait" /\ Interrupted(t)
    /\ cpc' = [cpc EXCEPT ![t] = "gone"]
    /\ UNCHANGED <<tpc, poolVars, touched, named>>

JoinOwn(t) ==
    /\ cpc[t] = "owns" /\ Joined(t)
    /\ m_thread' = [m_thread EXCEPT ![t] = FALSE]
    /\ cpc' = [cpc EXCEPT ![t] = "joined"]
    /\ UNCHANGED <<obj, m_id, m_cb, sem, tpc, poolVars, faults, histVars>>

\* ~Thread, which detaches a thread that was not joined.
DropOwn(t) ==
    /\ cpc[t] \in {"owns", "joined"}
    /\ obj' = [obj EXCEPT ![t] = "freed"]
    /\ cpc' = [cpc EXCEPT ![t] = "gone"]
    /\ UNCHANGED <<m_id, m_cb, m_thread, sem, tpc, poolVars, faults, histVars>>

OwnStep(t) ==
    CreateOwn(t) \/ OwnConstructed(t) \/ OwnFails(t) \/ JoinOwn(t) \/ DropOwn(t)

-----------------------------------------------------------------------------
\* Nothing happens any more when a null pointer has ended the process.
Next ==
    /\ mpc # "crash"
    /\ \/ Start \/ Stop \/ PoolStep \/ WorkerFails
       \/ \E t \in Threads : RunStep(t)
       \/ \E t \in Own : SetName(t) \/ OwnStep(t)

Spec == Init /\ [][Next]_vars

\* Every thread keeps running and the application's callbacks return; nothing
\* has to fail.
FairSpec ==
    /\ Spec
    /\ WF_vars(mpc # "crash" /\ PoolStep)
    /\ \A t \in Threads : WF_vars(mpc # "crash" /\ RunStep(t))

-----------------------------------------------------------------------------
(* Properties *)

\* What the semaphore is for: once the constructor has returned the object is
\* complete and run() is done with it.  run() uses no object that is gone,
\* whether the owner joins the thread or drops the object at once and lets the
\* thread run on detached, except when sem_wait has failed; SetName reaches a
\* dead object only from the callback of such a detached thread; and start()
\* reads every worker's id after the worker has set it.
HandshakeHolds ==
    /\ touched \subseteq interrupted
    /\ \A t \in named : t \in interrupted \/ (t \in Own /\ m_thread[t])
    /\ \A i \in DOMAIN m_thread_ids : m_thread_ids[i]

\* start() returns or throws although it waits for every worker with m_mutex
\* held; and stop() returns, unless start() threw and left it a null pointer.
StartReturns ==
    /\ mpc \in {"create", "wait"} ~> mpc \in {"started", "threw", "stop"}
    /\ mpc \in {"stop", "join"} ~> mpc \in {"stopped", "crash"}
=============================================================================
