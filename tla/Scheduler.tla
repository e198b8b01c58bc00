----------------------------- MODULE Scheduler -----------------------------
(***************************************************************************)
(* sylar::Scheduler (src/sylar/scheduler.h, scheduler.cc): an N:M fiber    *)
(* scheduler.  Worker threads (and, with use_caller, the thread that built *)
(* the scheduler, inside its root fiber) execute Scheduler::run, taking    *)
(* callbacks and fibers from the shared list m_fibers.                     *)
(*                                                                         *)
(* One action is what a thread does between two points where another       *)
(* thread can observe it: a section under m_mutex, an update of            *)
(* m_active_thread_count, a change of a fiber's m_state, a context switch. *)
(* Scheduler::tickle is empty in this class, so it does not appear.        *)
(*                                                                         *)
(* m_state and m_stopping are read and written without synchronisation;    *)
(* each access is taken to be atomic, and the scan of m_fibers reads the   *)
(* states of the listed fibers at one instant.                             *)
(***************************************************************************)
EXTENDS Fiber, Integers, Sequences, SequencesExt, FiniteSets

CONSTANTS
    Workers,      \* the threads start() creates (m_thread_count of them)
    Root,         \* the thread that built the scheduler
    UseCaller,    \* constructor argument use_caller
    AnyThread,    \* the default `thread` argument of schedule (-1)
    Cbs,          \* functions handed to schedule as std::function
    UserFibers,   \* functions handed to schedule wrapped in a Fiber
    NoJob,        \* null m_cb, null cb_fiber, empty Fiber_and_Thread
    CbOps,        \* what a callback may do besides returning ...
    FiberOps,     \* ... and what a user fiber may do
    AppPins,      \* `thread` arguments the application passes to schedule
    SpawnPins,    \* `thread` arguments passed to schedule inside a fiber
    MaxYields,    \* bound on the yields of one function
    MaxRounds     \* bound on the stop() calls

Jobs == Cbs \cup UserFibers
Threads == Workers \cup (IF UseCaller THEN {Root} ELSE {})
Ops == {"ready", "hold", "throw", "spawn"}

ASSUME SchedulerAssumption ==
    /\ UseCaller \in BOOLEAN
    /\ IsFiniteSet(Workers)
    /\ Root \notin Workers
    /\ AnyThread \notin Workers \cup {Root}
    /\ Cbs \cap UserFibers = {}
    /\ NoJob \notin Cbs \cup UserFibers
    /\ CbOps \subseteq Ops /\ FiberOps \subseteq Ops
    /\ AppPins \subseteq Threads \cup {AnyThread}
    /\ SpawnPins \subseteq Threads \cup {AnyThread}
    /\ MaxYields \in Nat /\ MaxRounds \in Nat

VARIABLES
    \* shared
    fib,                    \* the Fiber objects; a callback's fiber is named
                            \* after the first callback it was built for
    m_fibers,               \* the list of Fiber_and_Thread
    m_stopping,
    m_active_thread_count,
    waiters,                \* fibers someone will schedule again (external)
    \* locals of run(), one per thread
    pc, ft, cb_fiber, idle_term,
    \* the thread that owns the scheduler
    caller,                 \* where it is in stop()
    root_state,             \* m_root_fiber->getState()
    \* history and bounds
    status, yields, rounds,
    crash                   \* "none", or the assertion that failed

shared == <<fib, m_fibers, m_stopping, m_active_thread_count, waiters>>
locals == <<pc, ft, cb_fiber, idle_term>>
owner == <<caller, root_state>>
history == <<status, yields, rounds, crash>>
vars == <<shared, locals, owner, history>>

-----------------------------------------------------------------------------
(* Types *)

Fiber_and_Thread ==
    [kind : {"cb", "fiber"}, id : Jobs, thread : Threads \cup {AnyThread}]

NoTask == [kind |-> "none", id |-> NoJob, thread |-> AnyThread]

PcValues == {"off", "scan", "got", "swapIn", "user", "hold", "yielded",
             "ended", "after", "none", "exited"}

Statuses == {"fresh", "submitted", "begun", "finished"}

Faults == {"none", "reset", "exec", "live", "dead"}

\* The type invariant.
TypeOK ==
    /\ fib \in [Jobs -> FiberType(Jobs \cup {NoJob})]
    /\ m_fibers \in Seq(Fiber_and_Thread)
    /\ m_stopping \in BOOLEAN
    /\ m_active_thread_count \in Int
    /\ waiters \subseteq Jobs
    /\ pc \in [Threads -> PcValues]
    /\ ft \in [Threads -> Fiber_and_Thread \cup {NoTask}]
    /\ cb_fiber \in [Threads -> Jobs \cup {NoJob}]
    /\ idle_term \in [Threads -> BOOLEAN]
    /\ caller \in {"out", "root", "flag", "join"}
    /\ root_state \in {"INIT", "EXEC", "TERM"}
    /\ status \in [Jobs -> Statuses]
    /\ yields \in [Jobs -> 0..MaxYields]
    /\ rounds \in Nat
    /\ crash \in Faults

-----------------------------------------------------------------------------
(* Initial state: the constructor has returned. *)

Init ==
    /\ fib = [j \in Jobs |-> IF j \in UserFibers THEN NewFiber(j)
                             ELSE Unborn(NoJob)]
    /\ m_fibers = <<>>
    /\ m_stopping = TRUE
    /\ m_active_thread_count = 0
    /\ waiters = {}
    /\ pc = [t \in Threads |-> "off"]
    /\ ft = [t \in Threads |-> NoTask]
    /\ cb_fiber = [t \in Threads |-> NoJob]
    /\ idle_term = [t \in Threads |-> FALSE]
    /\ caller = "out"
    /\ root_state = "INIT"
    /\ status = [j \in Jobs |-> "fresh"]
    /\ yields = [j \in Jobs |-> 0]
    /\ rounds = 0
    /\ crash = "none"

-----------------------------------------------------------------------------
(* schedule *)

\* Fiber_and_Thread(f, thr): a user fiber is listed as a Fiber::ptr, a
\* callback as a std::function.
Entry(j, thread) ==
    [kind |-> IF j \in Cbs THEN "cb" ELSE "fiber", id |-> j, thread |-> thread]

FiberEntry(f) == [kind |-> "fiber", id |-> f, thread |-> AnyThread]

\* Mutant: the entry is only kept when the list was empty.
ScheduleLosesEntry(e) == m_fibers' = IF m_fibers = <<>> THEN <<e>> ELSE m_fibers

\* schedule(fc, thread): push_back under m_mutex.
Schedule(e) == m_fibers' = Append(m_fibers, e)

-----------------------------------------------------------------------------
(* The worker loop, Scheduler::run *)

\* run()'s conditions for taking an entry: not pinned to another thread and
\* not a fiber some thread is executing.
Eligible(t, e) ==
    /\ e.thread \in {AnyThread, t}
    /\ e.kind = "fiber" => fib[e.id].state # "EXEC"

\* The fiber that thread t has dispatched: ft while it runs a Fiber::ptr
\* (ft is reset before a callback runs), cb_fiber otherwise.
Cur(t) == IF ft[t].kind = "fiber" THEN ft[t].id ELSE cb_fiber[t]

Goto(t, l) == pc' = [pc EXCEPT ![t] = l]

\* The first eligible entry of m_fibers.
FirstEligible(t, i) ==
    /\ i \in DOMAIN m_fibers
    /\ Eligible(t, m_fibers[i])
    /\ \A k \in 1..(i - 1) : ~Eligible(t, m_fibers[k])

\* Mutant: the entry that was copied stays in the list.
EraseNothing(i) == UNCHANGED m_fibers

\* m_fibers.erase(it++).
Erase(i) == m_fibers' = RemoveAt(m_fibers, i)

\* The scan under m_mutex: the first eligible entry is copied and erased.
TakeTask(t) ==
    /\ pc[t] = "scan"
    /\ \E i \in DOMAIN m_fibers :
        /\ FirstEligible(t, i)
        /\ ft' = [ft EXCEPT ![t] = m_fibers[i]]
        /\ Erase(i)
    /\ Goto(t, "got")
    /\ UNCHANGED <<fib, m_stopping, m_active_thread_count, waiters,
                   cb_fiber, idle_term, owner, history>>

\* The scan reaches the end of the list: ft stays empty.
FindNothing(t) ==
    /\ pc[t] = "scan"
    /\ \A i \in DOMAIN m_fibers : ~Eligible(t, m_fibers[i])
    /\ Goto(t, "none")
    /\ UNCHANGED <<shared, ft, cb_fiber, idle_term, owner, history>>

\* The thread counts itself active before swapIn ...
Activate == m_active_thread_count' = m_active_thread_count + 1

\* Mutant: the decrement after swapIn is missing.
NeverDeactivate == UNCHANGED m_active_thread_count

\* ... and inactive after it.
Deactivate == m_active_thread_count' = m_active_thread_count - 1

\* A Fiber::ptr was taken: skipped when it has terminated, otherwise the
\* thread counts itself active.
DispatchFiber(t) ==
    /\ pc[t] = "got" /\ ft[t].kind = "fiber"
    /\ IF fib[ft[t].id].state = "TERM"
       THEN /\ ft' = [ft EXCEPT ![t] = NoTask]
            /\ Goto(t, "scan")
            /\ UNCHANGED m_active_thread_count
       ELSE /\ Activate
            /\ Goto(t, "swapIn")
            /\ UNCHANGED ft
    /\ UNCHANGED <<fib, m_fibers, m_stopping, waiters, cb_fiber, idle_term,
                   owner, history>>

\* A callback was taken: it is put into the thread's cb_fiber, which is reset
\* (under reset's assertion) or created, and the thread counts itself active.
DispatchCb(t) ==
    /\ pc[t] = "got" /\ ft[t].kind = "cb"
    /\ LET j == ft[t].id
           f == IF cb_fiber[t] = NoJob THEN j ELSE cb_fiber[t]
       IN  IF cb_fiber[t] # NoJob /\ ~CanReset(fib[f])
           THEN /\ crash' = "reset"
                /\ UNCHANGED <<fib, cb_fiber, ft, m_active_thread_count, pc>>
           ELSE /\ fib' = [fib EXCEPT ![f] = IF cb_fiber[t] = NoJob
                                             THEN NewFiber(j)
                                             ELSE Reset(@, j)]
                /\ cb_fiber' = [cb_fiber EXCEPT ![t] = f]
                /\ ft' = [ft EXCEPT ![t] = NoTask]
                /\ Activate
                /\ Goto(t, "swapIn")
                /\ UNCHANGED crash
    /\ UNCHANGED <<m_fibers, m_stopping, waiters, idle_term, owner,
                   status, yields, rounds>>

\* swapIn of the dispatched fiber.  A fresh context enters MainFunc, which
\* calls the fiber's function.
Resume(t) ==
    /\ pc[t] = "swapIn"
    /\ LET f == Cur(t)
           fault == SwapInFault(fib[f])
       IN  /\ crash' = fault
           /\ IF fault # "none"
              THEN UNCHANGED <<fib, pc, status>>
              ELSE /\ fib' = [fib EXCEPT ![f] = SwapIn(@)]
                   /\ Goto(t, "user")
                   /\ status' = IF fib[f].ctx = "fresh"
                                THEN [status EXCEPT ![fib[f].job] = "begun"]
                                ELSE status
    /\ UNCHANGED <<m_fibers, m_stopping, m_active_thread_count, waiters,
                   ft, cb_fiber, idle_term, owner, yields, rounds>>

-----------------------------------------------------------------------------
(* What the running function does *)

OpsOf(j) == IF j \in Cbs THEN CbOps ELSE FiberOps

\* It calls schedule with a function nobody has scheduled yet.
UserSchedule(t, j, thread) ==
    /\ pc[t] = "user" /\ "spawn" \in OpsOf(fib[Cur(t)].job)
    /\ status[j] = "fresh"
    /\ Schedule(Entry(j, thread))
    /\ status' = [status EXCEPT ![j] = "submitted"]
    /\ UNCHANGED <<fib, m_stopping, m_active_thread_count, waiters, locals,
                   owner, yields, rounds, crash>>

\* Yield_to_Ready: the state is changed first, the context saved later.
YieldToReady(t) ==
    /\ pc[t] = "user"
    /\ LET j == fib[Cur(t)].job
       IN  /\ "ready" \in OpsOf(j) /\ yields[j] < MaxYields
           /\ yields' = [yields EXCEPT ![j] = @ + 1]
    /\ fib' = [fib EXCEPT ![Cur(t)] = SetState(@, "READY")]
    /\ Goto(t, "yielded")
    /\ UNCHANGED <<m_fibers, m_stopping, m_active_thread_count, waiters,
                   ft, cb_fiber, idle_term, owner, status, rounds, crash>>

\* Before it holds, a fiber hands itself to whoever will schedule it again
\* (IOManager::add_event or a timer's callback): external to this class.
Register(t) ==
    /\ pc[t] = "user"
    /\ LET j == fib[Cur(t)].job
       IN  /\ "hold" \in OpsOf(j) /\ yields[j] < MaxYields
           /\ yields' = [yields EXCEPT ![j] = @ + 1]
    /\ waiters' = waiters \cup {Cur(t)}
    /\ Goto(t, "hold")
    /\ UNCHANGED <<fib, m_fibers, m_stopping, m_active_thread_count,
                   ft, cb_fiber, idle_term, owner, status, rounds, crash>>

\* Yield_to_Hold.
YieldToHold(t) ==
    /\ pc[t] = "hold"
    /\ fib' = [fib EXCEPT ![Cur(t)] = SetState(@, "HOLD")]
    /\ Goto(t, "yielded")
    /\ UNCHANGED <<m_fibers, m_stopping, m_active_thread_count, waiters,
                   ft, cb_fiber, idle_term, owner, history>>

\* The function returns (MainFunc drops m_cb) or throws.
Finish(t, throws) ==
    /\ pc[t] = "user"
    /\ LET j == fib[Cur(t)].job
       IN  /\ throws => "throw" \in OpsOf(j)
           /\ status' = [status EXCEPT ![j] = "finished"]
           /\ fib' = [fib EXCEPT ![Cur(t)] = MainFuncEnds(@, throws, NoJob)]
    /\ Goto(t, "ended")
    /\ UNCHANGED <<m_fibers, m_stopping, m_active_thread_count, waiters,
                   ft, cb_fiber, idle_term, owner, yields, rounds, crash>>

\* The registered party schedules the held fiber.
Wake(f) ==
    /\ f \in waiters
    /\ waiters' = waiters \ {f}
    /\ Schedule(FiberEntry(f))
    /\ UNCHANGED <<fib, m_stopping, m_active_thread_count, locals, owner,
                   history>>

-----------------------------------------------------------------------------
(* Back in run() *)

\* swapOut saves the context and swapIn returns in the thread's main fiber,
\* which counts itself inactive.
Leave(t) ==
    /\ pc[t] \in {"yielded", "ended"}
    /\ fib' = [fib EXCEPT ![Cur(t)] = SwapOut(@, pc[t] = "ended")]
    /\ Deactivate
    /\ Goto(t, "after")
    /\ UNCHANGED <<m_fibers, m_stopping, waiters, ft, cb_fiber, idle_term,
                   owner, history>>

\* run() leaves the state alone when the fiber is READY or has ended.
KeepsState(s) == s \in {"READY", "TERM", "EXCPT"}

\* Mutant: cb_fiber is not given up for a held fiber.
KeepsAnyCbFiber(s) == TRUE

\* cb_fiber is kept unless the callback's fiber is held.
KeepsCbFiber(s) == s \in {"READY", "TERM", "EXCPT"}

\* After a Fiber::ptr: a READY fiber is listed again without its pin, one
\* that is neither READY nor ended is marked HOLD, and ft is reset.
AfterFiber(t) ==
    /\ pc[t] = "after" /\ ft[t].kind = "fiber"
    /\ LET f == ft[t].id
       IN  /\ IF fib[f].state = "READY" THEN Schedule(FiberEntry(f))
                                        ELSE UNCHANGED m_fibers
           /\ fib' = IF KeepsState(fib[f].state) THEN fib
                     ELSE [fib EXCEPT ![f] = SetState(@, "HOLD")]
    /\ ft' = [ft EXCEPT ![t] = NoTask]
    /\ Goto(t, "scan")
    /\ UNCHANGED <<m_stopping, m_active_thread_count, waiters, cb_fiber,
                   idle_term, owner, history>>

\* After a callback: a READY fiber is listed (and kept in cb_fiber), an ended
\* one is reset for the next callback, any other is given up as HOLD.
AfterCb(t) ==
    /\ pc[t] = "after" /\ ft[t].kind # "fiber"
    /\ LET f == cb_fiber[t]
           s == fib[f].state
       IN  /\ IF s = "READY" THEN Schedule(FiberEntry(f))
                             ELSE UNCHANGED m_fibers
           /\ fib' = [fib EXCEPT ![f] =
                CASE s = "READY" -> @
                  [] s \in {"TERM", "EXCPT"} -> Reset(@, NoJob)
                  [] OTHER -> SetState(@, "HOLD")]
           /\ cb_fiber' = IF KeepsCbFiber(s) THEN cb_fiber
                          ELSE [cb_fiber EXCEPT ![t] = NoJob]
    /\ Goto(t, "scan")
    /\ UNCHANGED <<m_stopping, m_active_thread_count, waiters, ft, idle_term,
                   owner, history>>

\* Scheduler::stopping (m_auto_stop is always true).
stopping == m_stopping /\ m_fibers = <<>> /\ m_active_thread_count = 0

\* Nothing was taken: the idle fiber runs until it next yields, or ends
\* because stopping() holds.
Idle(t) ==
    /\ pc[t] = "none" /\ ~idle_term[t]
    /\ idle_term' = [idle_term EXCEPT ![t] = stopping]
    /\ Goto(t, "scan")
    /\ UNCHANGED <<shared, ft, cb_fiber, owner, history>>

\* Nothing was taken and the idle fiber has ended: run() returns, and its
\* locals are destroyed.
Exit(t) ==
    /\ pc[t] = "none" /\ idle_term[t]
    /\ Goto(t, "exited")
    /\ cb_fiber' = [cb_fiber EXCEPT ![t] = NoJob]
    /\ UNCHANGED <<shared, ft, idle_term, owner, history>>

-----------------------------------------------------------------------------
(* The thread that owns the scheduler *)

\* Mutant: the idle fibers of the last round are used again.
OldIdleFibers == idle_term

\* Every run() that start() launches has an idle fiber of its own.
NewIdleFibers == [t \in Threads |-> t \notin Workers /\ idle_term[t]]

\* start(): the threads are created under m_mutex, so none of them scans
\* before start() is over.
Start ==
    /\ caller = "out" /\ rounds < MaxRounds
    /\ m_stopping
    /\ m_stopping' = FALSE
    /\ pc' = [t \in Threads |-> IF t \in Workers THEN "scan" ELSE pc[t]]
    /\ idle_term' = NewIdleFibers
    /\ UNCHANGED <<fib, m_fibers, m_active_thread_count, waiters, ft,
                   cb_fiber, owner, history>>

\* schedule(fc, thread) from the application.  Its threads are assumed not to
\* schedule while the owner is inside start() or stop().
AppSchedule(j, thread) ==
    /\ caller = "out" /\ rounds < MaxRounds
    /\ status[j] = "fresh"
    /\ Schedule(Entry(j, thread))
    /\ status' = [status EXCEPT ![j] = "submitted"]
    /\ UNCHANGED <<fib, m_stopping, m_active_thread_count, waiters, locals,
                   owner, yields, rounds, crash>>

\* schedule(begin, end): the entries are listed under one lock, unpinned.
AppScheduleBatch(j, k) ==
    /\ caller = "out" /\ rounds < MaxRounds
    /\ j # k /\ status[j] = "fresh" /\ status[k] = "fresh"
    /\ m_fibers' = m_fibers \o <<Entry(j, AnyThread), Entry(k, AnyThread)>>
    /\ status' = [status EXCEPT ![j] = "submitted", ![k] = "submitted"]
    /\ UNCHANGED <<fib, m_stopping, m_active_thread_count, waiters, locals,
                   owner, yields, rounds, crash>>

\* stop() up to its assignment of m_stopping.  A scheduler made of the root
\* thread alone that is already stopping returns at once; otherwise the root
\* fiber is called unless stopping() holds (a root fiber that has ended
\* resumes behind its last statement).  The application stops a pool of
\* threads only after it has started it; a root thread alone may be stopped
\* without start(), which is how it drains the list.
Stop ==
    /\ caller = "out" /\ rounds < MaxRounds
    /\ UseCaller \/ ~m_stopping
    /\ IF UseCaller /\ Workers = {} /\ root_state \in {"INIT", "TERM"} /\ stopping
       THEN /\ rounds' = rounds + 1
            /\ UNCHANGED <<caller, root_state, pc, idle_term, crash>>
       ELSE /\ UNCHANGED rounds
            /\ IF UseCaller /\ ~stopping
               THEN /\ caller' = "root"
                    /\ root_state' = "EXEC"
                    /\ IF root_state = "TERM"
                       THEN crash' = "dead" /\ UNCHANGED <<pc, idle_term>>
                       ELSE /\ Goto(Root, "scan")
                            /\ idle_term' = [idle_term EXCEPT ![Root] = FALSE]
                            /\ UNCHANGED crash
               ELSE /\ caller' = "flag"
                    /\ UNCHANGED <<root_state, pc, idle_term, crash>>
    /\ UNCHANGED <<shared, ft, cb_fiber, status, yields>>

\* The root fiber's run() has returned: Caller_MainFunc ends it and call()
\* returns in stop().
RootReturn ==
    /\ caller = "root" /\ pc[Root] = "exited"
    /\ root_state' = "TERM"
    /\ caller' = "flag"
    /\ UNCHANGED <<shared, locals, history>>

\* m_stopping = true, and the threads are moved out of m_threads.
SetStopping ==
    /\ caller = "flag"
    /\ m_stopping' = TRUE
    /\ caller' = "join"
    /\ UNCHANGED <<fib, m_fibers, m_active_thread_count, waiters, locals,
                   root_state, history>>

Gone(t) == pc[t] \in {"off", "exited"}

\* Every thread has been joined: stop() returns.
Join ==
    /\ caller = "join"
    /\ \A t \in Workers : Gone(t)
    /\ caller' = "out"
    /\ rounds' = rounds + 1
    /\ UNCHANGED <<shared, locals, root_state, status, yields, crash>>

-----------------------------------------------------------------------------
(* The specification *)

RunStep(t) ==
    \/ TakeTask(t) \/ FindNothing(t) \/ DispatchFiber(t) \/ DispatchCb(t)
    \/ Resume(t) \/ Leave(t) \/ AfterFiber(t) \/ AfterCb(t)
    \/ Idle(t) \/ Exit(t)

UserStep(t) ==
    \/ \E j \in Jobs, thread \in SpawnPins : UserSchedule(t, j, thread)
    \/ YieldToReady(t) \/ Register(t) \/ YieldToHold(t)
    \/ \E throws \in BOOLEAN : Finish(t, throws)

AppStep ==
    \/ Start \/ Stop
    \/ \E j \in Jobs, thread \in AppPins : AppSchedule(j, thread)
    \/ \E j, k \in Jobs : AppScheduleBatch(j, k)

StopStep == RootReturn \/ SetStopping \/ Join

\* An assertion that fails ends the process.
Step ==
    /\ crash = "none"
    /\ \/ \E t \in Threads : RunStep(t) \/ UserStep(t)
       \/ \E f \in Jobs : Wake(f)
       \/ AppStep \/ StopStep

\* The process is over, or the last stop() has returned.
Over ==
    /\ crash # "none" \/ (caller = "out" /\ rounds = MaxRounds)
    /\ UNCHANGED vars

Next == Step \/ Over

(***************************************************************************)
(* Every thread keeps running and functions come to an end; stop(), once   *)
(* called, keeps going; a fiber that registered itself is scheduled again. *)
(* The application is never obliged to call anything.                      *)
(***************************************************************************)
Fairness ==
    /\ \A t \in Threads : WF_vars(crash = "none" /\ (RunStep(t) \/ UserStep(t)))
    /\ \A f \in Jobs : WF_vars(crash = "none" /\ Wake(f))
    /\ WF_vars(crash = "none" /\ StopStep)

Spec == Init /\ [][Next]_vars

FairSpec == Spec /\ Fairness

-----------------------------------------------------------------------------
(* Properties *)

\* No assertion of fiber.cc fails: reset only gets an INIT, TERM or EXCPT
\* fiber, and swapIn never enters a fiber that is executing, whose context is
\* unsaved, or whose MainFunc is over.
NoAssertionFails == crash = "none"

\* Thread t has dispatched a fiber and not yet come back from it.
Active(t) == pc[t] \in {"swapIn", "user", "hold", "yielded", "ended"}

\* A thread that took an entry has one, and a thread that dispatched a fiber
\* (or is just back from it) has one; what makes the types inductive.
Dispatched ==
    \A t \in Threads :
        /\ pc[t] = "got" => ft[t].kind \in {"cb", "fiber"}
        /\ Active(t) \/ pc[t] = "after" => Cur(t) \in Jobs

\* Which threads can be inside run(): no worker between a stop() and the next
\* start(), the root thread only while stop() has called the root fiber.
Parked ==
    /\ caller = "out" /\ m_stopping => \A t \in Workers : Gone(t)
    /\ UseCaller /\ caller # "root" => Gone(Root)

\* Two threads never have the same fiber dispatched: what run()'s test for
\* EXEC (a fiber that is executing is skipped) is there to guarantee.
ExclusiveExecution ==
    \A t, u \in Threads : Active(t) /\ Active(u) /\ t # u => Cur(t) # Cur(u)

\* m_active_thread_count is the number of threads inside a dispatched fiber,
\* so stopping() cannot be fooled by a missed increment or decrement.
ActiveCountExact ==
    m_active_thread_count = Cardinality({t \in Threads : Active(t)})

\* Entry e stands for function j.
Stands(e, j) == IF e.kind = "cb" THEN e.id = j ELSE fib[e.id].job = j

\* Thread t answers for function j: it has taken its entry, or runs it.
Holds(t, j) ==
    \/ pc[t] = "got" /\ Stands(ft[t], j)
    \/ pc[t] \in {"swapIn", "user", "hold", "yielded", "ended", "after"}
         /\ fib[Cur(t)].job = j

\* The representatives of function j.
HoldersOf(j) == {t \in Threads : Holds(t, j)}
EntriesOf(j) == {i \in DOMAIN m_fibers : Stands(m_fibers[i], j)}
WaitersOf(j) == {f \in waiters : fib[f].job = j}

\* A function that was scheduled and has not finished has exactly one
\* representative, an entry of m_fibers or a thread: run() neither drops it
\* nor lists it twice.
OneRepresentative ==
    \A j \in Jobs : status[j] \in {"submitted", "begun"} =>
        Cardinality(HoldersOf(j)) + Cardinality(EntriesOf(j)) = 1

\* As above where fibers hold: a held fiber that is neither listed, waiting
\* nor at a thread would be destroyed (and fail the assertion of ~Fiber), one
\* with two representatives would be resumed twice.
HeldIsReferenced ==
    \A j \in Jobs : status[j] \in {"submitted", "begun"} =>
        /\ HoldersOf(j) \cup EntriesOf(j) \cup WaitersOf(j) # {}
        /\ Cardinality(EntriesOf(j)) + Cardinality(WaitersOf(j)) <= 1

\* When the last thread is joined in stop(), nothing is left in m_fibers and
\* every function that was ever scheduled has been executed to its end.
DrainedAtJoin ==
    (caller = "join" /\ \A t \in Threads : Gone(t)) =>
        /\ m_fibers = <<>>
        /\ \A j \in Jobs : status[j] \in {"fresh", "finished"}

\* Scheduler implements the abstract pool: nothing is begun twice or before
\* it was scheduled, and stop() returns only when everything is finished.
Pool == INSTANCE TaskPool
ImplementsPool == Pool!Spec

\* stop() returns: it notifies every thread and waits for all of them.
StopReturns == caller # "out" ~> caller = "out"

\* stop() on a scheduler that was never started returns as well: the root
\* fiber drains the list and leaves run().
DrainingStopReturns == (caller # "out" /\ m_stopping) ~> caller = "out"

\* While the scheduler is started every function that is scheduled is
\* executed to its end.
JobsComplete ==
    \A j \in Jobs :
        (~m_stopping /\ status[j] = "submitted") ~> status[j] = "finished"

\* Where fibers hold the same is promised only as long as nobody stops the
\* scheduler: stop() does not wait for a fiber that is held.
HeldJobsComplete ==
    \A j \in Jobs : (~m_stopping /\ status[j] = "submitted")
                        ~> (status[j] = "finished" \/ m_stopping)
=============================================================================
