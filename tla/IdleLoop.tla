------------------------------ MODULE IdleLoop -----------------------------
(***************************************************************************)
(* How the threads of an IOManager sleep and are woken: IOManager::idle,   *)
(* tickle and stopping (src/sylar/iomanager.cc) inside Scheduler::run and  *)
(* under Scheduler::stop (scheduler.cc), together with the timers          *)
(* (timer.cc) they sleep for.                                              *)
(*                                                                         *)
(* Tasks are interchangeable, so m_fibers is the number of entries.  Time  *)
(* is kept as what remains of each timer and of each epoll_wait, so the    *)
(* clock needs no bound.  list_expired_cbs takes the due timers in one     *)
(* step (module TimerManager has its detail).  Descriptor events are in    *)
(* module IOManager; here none is pending.  use_caller is false.           *)
(***************************************************************************)
EXTENDS Integers, FiniteSets, FiniteSetsExt, Functions

CONSTANTS
    Threads,     \* the workers
    Caller,      \* the application's thread, not a worker
    MAX_TIMEOUT, \* longest epoll_wait, in clock ticks
    Delays,      \* values of ms given to add_timer
    TaskOps,     \* what a task calls: "task" (schedule), "timer" (add_timer)
    ForeignOps,  \* the same for the application's thread
    MaxTasks,    \* bound on the calls of schedule
    MaxTimers,   \* bound on the calls of add_timer
    MaxSignals   \* bound on the epoll_waits a signal interrupts

ASSUME IdleLoopAssumption ==
    /\ IsFiniteSet(Threads) /\ Threads # {} /\ Caller \notin Threads
    /\ MAX_TIMEOUT \in Nat \ {0}
    /\ Delays \subseteq Nat
    /\ TaskOps \subseteq {"task", "timer"} /\ ForeignOps \subseteq {"task", "timer"}
    /\ MaxTasks \in Nat /\ MaxTimers \in Nat /\ MaxSignals \in Nat

VARIABLES
    m_fibers,               \* length of the task list
    m_active_thread_count,
    m_idle_thread_count,
    m_stopping,
    timers,                 \* m_timers: what remains of each timer in it
    pipe,                   \* m_tickle_fds holds a byte
    edge,                   \* ... that no epoll_wait has reported yet
    pc, term,               \* per thread: place, and whether idle() has ended
    next_timeout,           \* per thread: None stands for ~0ull
    until,                  \* per thread: what remains of its epoll_wait
    tickled,                \* per thread: epoll_wait reported the pipe
    cbs,                    \* per thread: expired callbacks not yet scheduled
    owes,                   \* per actor: tickle() calls it is about to make
    caller,                 \* the application: "out" of stop, in "join", "done"
    tasks, added, signals   \* bounds

queue == <<m_fibers, m_active_thread_count>>
wait == <<next_timeout, until, tickled, cbs>>
wakeup == <<pipe, edge>>
stop == <<m_stopping, caller>>
bounds == <<tasks, added, signals>>
vars == <<queue, m_idle_thread_count, timers, pc, term, wait, wakeup, owes,
          stop, bounds>>

None == -1
Actors == Threads \cup {Caller}
InIdle == {"ask", "asked", "sleep", "awake", "list", "drain", "leave"}

\* The type invariant.
TypeOK ==
    /\ m_fibers \in 0..(MaxTasks + MaxTimers)
    /\ m_active_thread_count \in 0..Cardinality(Threads)
    /\ m_idle_thread_count \in 0..Cardinality(Threads)
    /\ m_stopping \in BOOLEAN
    /\ DOMAIN timers \subseteq 1..MaxTimers /\ Range(timers) \subseteq Nat
    /\ pipe \in BOOLEAN /\ edge \in BOOLEAN
    /\ pc \in [Threads -> InIdle \cup {"scan", "got", "run", "none", "exited"}]
    /\ term \in [Threads -> BOOLEAN]
    /\ next_timeout \in [Threads -> Nat \cup {None}]
    /\ until \in [Threads -> Nat]
    /\ tickled \in [Threads -> BOOLEAN]
    /\ cbs \in [Threads -> 0..MaxTimers]
    /\ owes \in [Actors -> 0..Cardinality(Threads)]
    /\ caller \in {"out", "join", "done"}
    /\ tasks \in 0..MaxTasks /\ added \in 0..MaxTimers
    /\ signals \in 0..MaxSignals

\* The constructor has called start().
Init ==
    /\ m_fibers = 0 /\ m_active_thread_count = 0 /\ m_idle_thread_count = 0
    /\ timers = << >>
    /\ pipe = FALSE /\ edge = FALSE
    /\ pc = [t \in Threads |-> "scan"]
    /\ term = [t \in Threads |-> FALSE]
    /\ next_timeout = [t \in Threads |-> None]
    /\ until = [t \in Threads |-> 0]
    /\ tickled = [t \in Threads |-> FALSE]
    /\ cbs = [t \in Threads |-> 0]
    /\ owes = [a \in Actors |-> 0]
    /\ m_stopping = FALSE /\ caller = "out"
    /\ tasks = 0 /\ added = 0 /\ signals = 0

\* Thread t stands at l and owes no tickle.
At(t, l) == pc[t] = l /\ owes[t] = 0
Goto(t, l) == pc' = [pc EXCEPT ![t] = l]

-----------------------------------------------------------------------------
(* tickle, schedule and add_timer.  Each changes its list under a lock and  *)
(* calls tickle() after releasing it: the call is owed until it is made.    *)

Owe(a, need) == owes' = [owes EXCEPT ![a] = IF need THEN 1 ELSE 0]

\* Mutant: the test is inverted.
TickleOnlyBusy == m_idle_thread_count = 0

\* hasIdleThread().
HasIdleThread == m_idle_thread_count > 0

\* IOManager::tickle: a byte is written to the pipe if some thread is idle.
Tickle(a) ==
    /\ owes[a] > 0
    /\ owes' = [owes EXCEPT ![a] = @ - 1]
    /\ pipe' = (pipe \/ HasIdleThread)
    /\ edge' = (edge \/ HasIdleThread)
    /\ UNCHANGED <<queue, m_idle_thread_count, timers, pc, term, wait, stop,
                   bounds>>

\* schedule of n entries: tickle when the list was empty.
Schedule(a, n) ==
    /\ m_fibers' = m_fibers + n
    /\ Owe(a, n > 0 /\ m_fibers = 0)

\* Mutant: on_timer_insert_at_front is only called for the first timer.
AtFrontOfNone(ms) == DOMAIN timers = {}

\* The new timer is the first of m_timers (ties are ordered by address).
AtFront(ms) == \A i \in DOMAIN timers : ms < timers[i]

\* add_timer(ms, ...): inserted, and tickle when it is at the front.
AddTimer(a, ms) ==
    /\ added < MaxTimers
    /\ added' = added + 1
    /\ timers' = [i \in DOMAIN timers \cup {added + 1} |->
                    IF i = added + 1 THEN ms ELSE timers[i]]
    /\ Owe(a, AtFront(ms))
    /\ UNCHANGED <<queue, m_idle_thread_count, pc, term, wait, wakeup, stop,
                   tasks, signals>>

\* A task scheduled by a call of schedule.
AddTask(a) ==
    /\ tasks < MaxTasks
    /\ tasks' = tasks + 1
    /\ Schedule(a, 1)
    /\ UNCHANGED <<m_active_thread_count, m_idle_thread_count, timers, pc, term,
                   wait, wakeup, stop, added, signals>>

-----------------------------------------------------------------------------
(* Scheduler::run *)

\* An entry is taken; tickle for the ones that remain.
Take(t) ==
    /\ At(t, "scan") /\ m_fibers > 0
    /\ m_fibers' = m_fibers - 1
    /\ Owe(t, m_fibers > 1)
    /\ Goto(t, "got")
    /\ UNCHANGED <<m_active_thread_count, m_idle_thread_count, timers, term, wait,
                   wakeup, stop, bounds>>

FindNothing(t) ==
    /\ At(t, "scan") /\ m_fibers = 0
    /\ Goto(t, "none")
    /\ UNCHANGED <<queue, m_idle_thread_count, timers, term, wait, wakeup, owes,
                   stop, bounds>>

RunTask(t) ==
    /\ At(t, "got")
    /\ m_active_thread_count' = m_active_thread_count + 1
    /\ Goto(t, "run")
    /\ UNCHANGED <<m_fibers, m_idle_thread_count, timers, term, wait, wakeup,
                   owes, stop, bounds>>

\* A running task schedules another one, or adds a timer.
TaskSchedules(t) == At(t, "run") /\ "task" \in TaskOps /\ AddTask(t)

TaskAddsTimer(t) ==
    /\ At(t, "run") /\ "timer" \in TaskOps
    /\ \E ms \in Delays : AddTimer(t, ms)

EndTask(t) ==
    /\ At(t, "run")
    /\ m_active_thread_count' = m_active_thread_count - 1
    /\ Goto(t, "scan")
    /\ UNCHANGED <<m_fibers, m_idle_thread_count, timers, term, wait, wakeup,
                   owes, stop, bounds>>

\* Nothing was taken: the thread counts itself idle and enters its idle
\* fiber, or leaves run() when that has ended.
GoIdle(t) ==
    /\ At(t, "none")
    /\ IF term[t]
       THEN Goto(t, "exited") /\ UNCHANGED m_idle_thread_count
       ELSE Goto(t, "ask") /\ m_idle_thread_count' = m_idle_thread_count + 1
    /\ UNCHANGED <<queue, timers, term, wait, wakeup, owes, stop, bounds>>

\* Mutant: the thread stays counted.
StaysIdle == m_idle_thread_count

\* The count after the idle fiber was left.
OneIdleLess == m_idle_thread_count - 1

\* Mutant: idle() loops without swapping out.
LoopInIdle(t) ==
    /\ At(t, "leave")
    /\ Goto(t, IF term[t] THEN "scan" ELSE "ask")
    /\ m_idle_thread_count' = m_idle_thread_count - (IF term[t] THEN 1 ELSE 0)
    /\ UNCHANGED <<queue, timers, term, wait, wakeup, owes, stop, bounds>>

\* Back in run() from the idle fiber.
LeaveIdle(t) ==
    /\ At(t, "leave")
    /\ m_idle_thread_count' = OneIdleLess
    /\ Goto(t, "scan")
    /\ UNCHANGED <<queue, timers, term, wait, wakeup, owes, stop, bounds>>

-----------------------------------------------------------------------------
(* IOManager::idle *)

\* TimerManager::get_next_timeout.
NextTimeout == IF DOMAIN timers = {} THEN None ELSE Min(Range(timers))

\* The first half of stopping(next_timeout).
AskTimeout(t) ==
    /\ At(t, "ask")
    /\ next_timeout' = [next_timeout EXCEPT ![t] = NextTimeout]
    /\ Goto(t, "asked")
    /\ UNCHANGED <<queue, m_idle_thread_count, timers, term, until, tickled, cbs,
                   wakeup, owes, stop, bounds>>

\* Mutant: timers are not consulted.
MayStopWithTimers(t) == m_stopping /\ m_fibers = 0 /\ m_active_thread_count = 0

\* Mutant: idle() never ends.
NeverStops(t) == FALSE

\* The second half: no timer was seen, and Scheduler::stopping().
MayStop(t) ==
    /\ next_timeout[t] = None
    /\ m_stopping /\ m_fibers = 0 /\ m_active_thread_count = 0

\* How long epoll_wait sleeps.
SleepTime(t) == IF next_timeout[t] = None \/ next_timeout[t] > MAX_TIMEOUT
                THEN MAX_TIMEOUT ELSE next_timeout[t]

\* idle() ends, or calls epoll_wait.
StopOrSleep(t) ==
    /\ At(t, "asked")
    /\ IF MayStop(t)
       THEN /\ term' = [term EXCEPT ![t] = TRUE]
            /\ Goto(t, "leave")
            /\ UNCHANGED until
       ELSE /\ until' = [until EXCEPT ![t] = SleepTime(t)]
            /\ Goto(t, "sleep")
            /\ UNCHANGED term
    /\ UNCHANGED <<queue, m_idle_thread_count, timers, next_timeout, tickled, cbs,
                   wakeup, owes, stop, bounds>>

\* epoll_wait returns: the pipe is reported to one thread (EPOLLET), or the
\* time is up.
EpollReports(t) ==
    /\ At(t, "sleep") /\ pipe /\ edge
    /\ edge' = FALSE
    /\ tickled' = [tickled EXCEPT ![t] = TRUE]
    /\ Goto(t, "awake")
    /\ UNCHANGED <<queue, m_idle_thread_count, timers, term, next_timeout, until,
                   cbs, pipe, owes, stop, bounds>>

EpollTimesOut(t) ==
    /\ At(t, "sleep") /\ until[t] = 0
    /\ tickled' = [tickled EXCEPT ![t] = FALSE]
    /\ Goto(t, "awake")
    /\ UNCHANGED <<queue, m_idle_thread_count, timers, term, next_timeout, until,
                   cbs, wakeup, owes, stop, bounds>>

\* A signal interrupts it (EINTR): it is called again with the same timeout.
EpollInterrupted(t) ==
    /\ At(t, "sleep") /\ signals < MaxSignals
    /\ signals' = signals + 1
    /\ until' = [until EXCEPT ![t] = SleepTime(t)]
    /\ UNCHANGED <<queue, m_idle_thread_count, timers, pc, term, next_timeout,
                   tickled, cbs, wakeup, owes, stop, tasks, added>>

\* list_expired_cbs: the due timers leave m_timers.
ListExpired(t) ==
    /\ At(t, "awake")
    /\ LET due == {i \in DOMAIN timers : timers[i] = 0}
       IN  /\ timers' = Restrict(timers, DOMAIN timers \ due)
           /\ cbs' = [cbs EXCEPT ![t] = Cardinality(due)]
    /\ Goto(t, "list")
    /\ UNCHANGED <<queue, m_idle_thread_count, term, next_timeout, until, tickled,
                   wakeup, owes, stop, bounds>>

\* The callbacks are scheduled as one batch.
ScheduleCbs(t) ==
    /\ At(t, "list")
    /\ Schedule(t, cbs[t])
    /\ cbs' = [cbs EXCEPT ![t] = 0]
    /\ Goto(t, IF tickled[t] THEN "drain" ELSE "leave")
    /\ UNCHANGED <<m_active_thread_count, m_idle_thread_count, timers, term,
                   next_timeout, until, tickled, wakeup, stop, bounds>>

\* A reported pipe is read until it is empty.
Drain(t) ==
    /\ At(t, "drain")
    /\ pipe' = FALSE
    /\ Goto(t, "leave")
    /\ UNCHANGED <<queue, m_idle_thread_count, timers, term, wait, edge, owes,
                   stop, bounds>>

-----------------------------------------------------------------------------
(* The application's thread and the clock *)

ForeignSchedule ==
    /\ caller = "out" /\ owes[Caller] = 0
    /\ "task" \in ForeignOps /\ AddTask(Caller)

ForeignAddTimer ==
    /\ caller = "out" /\ owes[Caller] = 0
    /\ "timer" \in ForeignOps /\ \E ms \in Delays : AddTimer(Caller, ms)

\* stop(): the flag, then one tickle per thread.
Stop ==
    /\ caller = "out" /\ owes[Caller] = 0
    /\ m_stopping' = TRUE
    /\ caller' = "join"
    /\ owes' = [owes EXCEPT ![Caller] = Cardinality(Threads)]
    /\ UNCHANGED <<queue, m_idle_thread_count, timers, pc, term, wait, wakeup,
                   bounds>>

Join ==
    /\ caller = "join" /\ owes[Caller] = 0
    /\ \A t \in Threads : pc[t] = "exited"
    /\ caller' = "done"
    /\ UNCHANGED <<queue, m_idle_thread_count, timers, pc, term, wait, wakeup,
                   owes, m_stopping, bounds>>

Less(n) == IF n > 0 THEN n - 1 ELSE n

\* Time passes for timers and sleepers alike.  A sleep is measured from
\* get_next_timeout: the instructions between it and epoll_wait take no time.
Tick ==
    /\ \A t \in Threads : pc[t] # "asked"
    /\ \/ \E i \in DOMAIN timers : timers[i] > 0
       \/ \E t \in Threads : pc[t] = "sleep" /\ until[t] > 0
    /\ timers' = [i \in DOMAIN timers |-> Less(timers[i])]
    /\ until' = [t \in Threads |-> IF pc[t] = "sleep" THEN Less(until[t]) ELSE until[t]]
    /\ UNCHANGED <<queue, m_idle_thread_count, pc, term, next_timeout, tickled,
                   cbs, wakeup, owes, stop, bounds>>

\* What thread t does without being asked.
ThreadStep(t) ==
    \/ Take(t) \/ FindNothing(t) \/ RunTask(t) \/ EndTask(t) \/ GoIdle(t)
    \/ AskTimeout(t) \/ StopOrSleep(t) \/ EpollReports(t) \/ EpollTimesOut(t)
    \/ ListExpired(t) \/ ScheduleCbs(t) \/ Drain(t) \/ LeaveIdle(t)

\* stop() has returned: nothing is left to do.
Over == caller = "done" /\ UNCHANGED vars

Next ==
    \/ \E a \in Actors : Tickle(a)
    \/ \E t \in Threads :
         ThreadStep(t) \/ TaskSchedules(t) \/ TaskAddsTimer(t) \/ EpollInterrupted(t)
    \/ ForeignSchedule \/ ForeignAddTimer \/ Stop \/ Join
    \/ Tick
    \/ Over

Spec == Init /\ [][Next]_vars

\* Threads are scheduled by the kernel and never blocked for ever, tasks end,
\* and time passes.  Nobody has to schedule, add a timer or stop.
FairSpec ==
    /\ Spec
    /\ \A t \in Threads : WF_vars(ThreadStep(t))
    /\ \A a \in Actors : WF_vars(Tickle(a))
    /\ WF_vars(Join) /\ WF_vars(Tick)

-----------------------------------------------------------------------------
(* Properties *)

\* Every live thread waits in epoll_wait, no tickle is on its way to them.
Quiet ==
    /\ \E t \in Threads : pc[t] = "sleep"
    /\ \A t \in Threads : pc[t] \in {"sleep", "exited"}
    /\ \A a \in Actors : owes[a] = 0
    /\ ~(pipe /\ edge)

\* m_idle_thread_count, which decides whether tickle() writes, counts the
\* threads inside their idle fibers (scheduler.cc:312-314).
IdleCountExact == m_idle_thread_count = Cardinality({t \in Threads : pc[t] \in InIdle})

\* The threads never all sleep while a task waits: whoever schedules from
\* inside the pool looks at the list again before it sleeps, and tickle()
\* reaches the sleepers when another thread schedules.
NoLostTask == Quiet => m_fibers = 0

\* Adding a timer shortens the sleep: when every thread sleeps, one of them
\* wakes in time for the first timer (get_next_timeout,
\* on_timer_insert_at_front).
NoOversleep ==
    Quiet => \A i \in DOMAIN timers :
               \E t \in Threads : pc[t] = "sleep" /\ until[t] <= timers[i]

\* A thread leaves idle() for good only when no timer is left, so none is
\* left, nor a task, when all have exited (IOManager::stopping).
AllServedAtExit ==
    (\A t \in Threads : pc[t] = "exited") => DOMAIN timers = {} /\ m_fibers = 0

\* stop()'s tickles wake every thread that has nothing left to wait for.
StopWakesAll ==
    (caller = "join" /\ m_fibers = 0 /\ m_active_thread_count = 0 /\ DOMAIN timers = {})
        => ~Quiet

\* Every timer expires and is taken.
TimersServed ==
    \A i \in 1..MaxTimers : (i \in DOMAIN timers) ~> (i \notin DOMAIN timers)

\* stop() returns.
StopCompletes == (caller = "join") ~> (caller = "done")
=============================================================================
