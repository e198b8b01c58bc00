# A TLA+ model of the sylar server framework

`src/sylar` is a C++ coroutine server framework: fibers (ucontext coroutines), an N:M fiber
scheduler, an epoll-based I/O manager with timers, hooks that turn blocking calls into fiber
switches, and the configuration and logging they use. This directory models its
concurrent core, from the fiber up to the I/O manager's idle loop and the hooked system calls, and
around it the start of threads, the configuration and the loggers it reconfigures; it checks the
models with TLC and proves the safety properties and the two refinements with TLAPS, for any
number of threads, tasks, timers, descriptors and calls.

## 1. Inventory

| component | state | operations | interacts with |
|---|---|---|---|
| **Fiber** (`fiber.h/.cc`) | `m_state`, `m_ctx`, `m_cb`, thread-local current fiber | constructor, `reset`, `swapIn/Out`, `call/back`, `Yield_to_Ready`, `Yield_to_Hold`, `MainFunc` | resumed by Scheduler; yields from user code and from hooks |
| **Scheduler** (`scheduler.h/.cc`) | `m_fibers` (list of fiber-or-callback with a pinned thread), `m_stopping`, `m_active_thread_count`, `m_idle_thread_count`, root fiber | `start`, `stop`, `schedule` (one and batch), `run`, `idle`, `stopping`, `tickle` | base class of IOManager |
| **Timers** (`timer.h/.cc`) | `m_timers` ordered by deadline then address; per timer `m_next`, `m_ms`, `m_cb`, `m_recurring` | `add_timer`, `add_condition_timer`, `cancel`, `refresh`, `reset`, `get_next_timeout`, `list_expired_cbs` | base class of IOManager; a new first timer calls `on_timer_insert_at_front` |
| **IOManager** (`iomanager.h/.cc`) | one `FdContext` per descriptor (registered events, the scheduler and function of each), `m_pending_event_count`, epoll, the tickle pipe | `add_event`, `del_event`, `cancel_event`, `cancel_all`, `triggerEvent`, `idle`, `tickle`, `stopping` | epoll; schedules the functions of events and timers |
| **Hook** (`hook.h/.cc`) | thread-local enable flag | `sleep`, `usleep`, `nanosleep`, `do_io` (read, write, accept, ...), `connect`, `socket`, `close`, `fcntl`, `ioctl`, `setsockopt` | add_event, cancel_event, condition timers, Yield_to_Hold, FdManager |
| **FdManager** (`fd_manager.h/.cc`) | vector of `FdCtx` (socket, non-blocking, timeouts) under a rwlock | `getFdCtx`, `delFdCtx`, setters | Hook |
| **Config** (`config.h/.cc`) | map of named variables; per variable its value, its listeners and a rwlock | `Lookup`, `setValue`, `addListener`, `delListener`, `LoadFromYaml` | Log, Fiber (stack size), Hook (timeouts) |
| **Log** (`log.h/.cc`) | per logger: level, formatter, appenders, the root logger to fall back to, a mutex; the manager: loggers by name, a mutex | `log`, `getLogger`, `addLogger`, add/clear appenders, set formatter, `toYamlString`; pattern parser; reconfiguration by a Config listener | everyone |
| **Thread and locks** (`thread.h/.cc`) | thread id, callback, start-up semaphore; wrappers of pthread locks | constructor (waits for the new thread), `run`, `join`, destructor (detaches) | everyone; `Scheduler::start` and `stop` |
| **Address** (`address.h/.cc`) | none | declarations and stubs | |
| **Utilities** (`util`, `macro.h`, `singleton.h`) | none | thread ids, clock, assertions | everyone |

What is hard here:

* `m_state` of a fiber is read by threads that do not own the fiber, and is changed *before* the
  context is saved (`fiber.cc:194-221`).
* An entry leaves the list before the thread counts itself active (`scheduler.cc:214`, `234`), and a
  thread counts itself idle after it has scanned the list (`scheduler.cc:312`); `stopping()` and
  `tickle()` decide from these counts.
* `list_expired_cbs` checks under a read lock and works under a write lock taken later, and then
  hands that lock to `add_timer`, which releases it: the rest of the loop reads and clears callbacks
  and inserts into the set without it (`timer.cc:161-206`).
* `del_event`, `cancel_event` and `cancel_all` copy the context's mutex where they mean to lock it
  (`iomanager.cc:141,183,225`).
* epoll is edge-triggered, for descriptors and for the tickle pipe; one thread drains the pipe for all.
* `epoll_wait` is bounded by a timeout computed from timers that change, and is restarted after EINTR.
* A fiber that holds in a hooked call can be resumed by its event, by the callback of its timer
  and by a `close` of its descriptor; exactly one of them must (`hook.cc:110-180`).
* `setValue` calls the listeners under the read lock and stores under a write lock taken later
  (`config.h:204-213`); the log listener rebuilds loggers that other threads are using.
* A logger calls the root logger with its mutex held, the manager calls every logger with its own
  held (`log.cc:360,826`).
* A new thread uses its `Thread` object through a raw pointer, and `start()` constructs threads
  under the mutex they need (`thread.cc:106-117`, `scheduler.cc:66-82`).

What makes the components correct:

* Fiber and Scheduler: a function is begun once and run to its end, by one thread at a time; no
  assertion of `fiber.cc` fails; the active count is exact; `stop()` returns, and only when
  everything scheduled is finished.
* Timers: no callback is listed early or after its timer was cancelled, no timer is lost; a due timer is served.
* IOManager: contexts, epoll registration, waiting functions and the pending count agree; a ready
  event wakes its function; nobody sleeps through a task or a timer; a thread leaves only when
  nothing is left.
* Hook and FdManager: a holding call is resumed once; a timeout belongs to the wait that reports
  it; `close` reaches everybody who waits; a reused number inherits nothing; a call that may hold
  does not block its worker in libc.
* Config and Log: when a load is over, the loggers are what the stored value says and every
  listener knows it; no message meets a logger that accepts it and has nowhere to write; a pattern
  is rendered as it reads; what is written out can be loaded again; nobody waits in a circle.
* Thread: the object outlives `run()`'s use of it; `start()` and `stop()` return.

## 2. Modules

| module | models | composed of |
|---|---|---|
| `Fiber` | a fiber as a record (state, context, function) and its operations as operators | |
| `Scheduler` | `start`, `stop`, `schedule`, `run`, `idle`, `stopping`, with user functions that return, throw, spawn, yield and hold | extends `Fiber`; instance of `TaskPool` |
| `TaskPool` | the promise of a scheduler to its users (abstract) | |
| `TimerManager` | the timer set and `list_expired_cbs` | instance of `TimerService` |
| `TimerService` | the promise of the timers to their users (abstract) | |
| `IOManager` | descriptor events over a model of epoll | |
| `IdleLoop` | `IOManager::idle`, `tickle`, `stopping` inside `run()` and under `stop()`, with the timers they sleep for | |
| `FdManager` | a descriptor's context as a record and its operations as operators | |
| `Hook` | the hooked calls of fibers, over the interface of an I/O manager | extends `FdManager` |
| `Config` | one configuration variable: loads, listeners, the two locks of `setValue` | |
| `LogDefine` | the defines of loggers and their conversions from and to YAML | |
| `LogFormatter` | the pattern parser and what it renders, beside a reference definition | |
| `Log` | loggers, the manager, the reconfiguring listener, the path of a message | extends `Config`, `LogDefine`, `LogFormatter` |
| `Thread` | the life of `Thread` objects, with `Scheduler::start` and `stop` around them | |
| `MC...` | instances for TLC | |
| `SchedulerProofs`, `TaskProofs` | theorems about `Scheduler`; `TaskProofs` has those about its workloads and `TaskPool` | `TaskProofs` extends `SchedulerProofs` |
| `TimerProofs`, `IOManagerProofs`, `IdleLoopProofs`, `HookProofs`, `LogProofs`, `ThreadProofs` | theorems about the module of the same name | extend it |

`PROJECT.json` maps every definition to the source lines it stands for. Each definition marked
`Mutant` is a plausible bug in the definition that follows it: putting it in the place of that
definition must break the property it is listed with, which shows that the property can fail.

### Scheduler

One action is what a thread does between two points at which another thread can see it. Per
thread `pc` runs through

    scan -> got -> swapIn -> user -> (hold ->) yielded | ended -> after -> scan
    scan -> none -> scan (idle fiber) | exited

* `TakeTask`/`FindNothing` are the scan under `m_mutex`: the first entry that is not pinned
  elsewhere and is not a fiber in state EXEC is copied and erased.
* `DispatchFiber`/`DispatchCb` are the code up to `++m_active_thread_count`; the second puts the
  callback into the thread's reusable `cb_fiber`, under the assertion of `Fiber::reset`.
* `Resume` is `swapIn`, with its assertion and with the two faults the C++ cannot assert: resuming
  a context another thread still stands on, and one whose `MainFunc` is over.
* `YieldToReady`, `YieldToHold`, `Finish` change `m_state`; `Leave` is the `swapcontext` after
  them together with `--m_active_thread_count`. The gap between the two is what the code is exposed to.
* `AfterFiber`/`AfterCb` are the rest of the loop body: list again, reset, mark HOLD, give up.
* `Start`, `Stop`, `RootReturn`, `SetStopping`, `Join` are the owner's thread; `Stop` contains all
  early returns of `stop()`. `Register` and `Wake` stand for whoever resumes a fiber that holds
  (an event or a timer): they are external to the class.

A fiber's identity: a user fiber is named by its function, the fiber a thread builds for callbacks
by the first callback it was built for. `status` is history: it says how far each function is.
`rounds` counts the `stop()` calls. A failed assertion is recorded in `crash` and ends the run.
The application is assumed to stop a pool of worker threads only after it started it, and not to
schedule from other threads while the owner is inside `start()` or `stop()`: what comes in during
`stop()` may find nobody left to run it, which is the application's affair. Functions that run on
the pool schedule at any time.

### TimerManager

A section under `m_mutex` is one action. In `list_expired_cbs`, `CheckEmpty` is the clock and the
read-locked test, `Extract` the write-locked part up to the first recurring timer, whose
`add_timer` unlocks. The rest of the loop has no lock, so its accesses have a beginning and an end:
a callback is copied between `StartPush` and `Push`; a timer is inserted again, or loses its
callback, between `StartPutBack` and `PutBack`. Whoever comes into the set or the callback in that
time (`Clash`) makes a data race. C++ leaves open what the program does then and a `std::set` can
be corrupted; the model sets `raced`, lets the set hold any timers, and stops. The actions of the
others, which need the set or the callback for themselves, say so in their guards (`SetIsFree`,
`CbInUse`); what these guards exclude is exactly what `Clash` is. So nothing is claimed for what
follows a race, and every property says so (`~raced =>`, `raced' \/`); a race is reachable with
recurring timers and not without (section 3, `OneShotTimersKept`).

`ExpiredRange` allows every outcome of `upper_bound` among timers due exactly now, whose order
depends on addresses. Addresses of timers are integers because the comparator compares them.

`TimerService` knows a timer as new, armed with a deadline, listed or off. The refinement mapping
(`Status` and the substitution of `Service`) reads these off the object's callback and the places
a timer can be in: the set, an `add_timer` under way, a poller's unlocked loop. A timer with a
callback in none of them maps to a state `TimerService` does not have. Between `Push` and `PutBack`
a timer is listed: the callback has been copied into `cbs` and will be run; a `cancel` there keeps
it from being listed again, and so does not stop a callback that has been.

### IOManager

`add_event` and the handling of one epoll result hold the context's mutex and are one action each;
the other three operations are split at every place where another thread can come in
(`StartOp`, `OpCtl`, `OpTrigger`, `OpClear`, and `DelApply` for the tail of `del_event`, whose
three assignments are one step). The kernel is external: `Arrive` makes a descriptor ready, `Ctl`
puts a modified registration back on the ready list, and a result is reported once per edge. One
function per descriptor and event waits: `waiter` says whether it waits or has been scheduled.

### IdleLoop

Tasks are interchangeable, so the list is a number. Time is what *remains* of each timer and each
sleep, so the clock needs no bound and the state space is finite. A `tickle()` that code makes after it released its
lock is owed (`owes`) until `Tickle` takes place, so that every step of the others can come in
between. `stopping(next_timeout)` is two steps, `AskTimeout` and `StopOrSleep`; time does not pass
between them (a sleep counts from the moment the timeout was computed). `pipe` and `edge` are the
tickle pipe and its edge-triggered report. `EpollInterrupted` restarts the wait with the old timeout.

### Hook

A call is cut into steps where another thread of the pool can come in: `Try` (libc's function),
`Arm` (the condition timer), `AddEvent` (the registration and `Yield_to_Hold`), `Resume` (what
follows the yield); `CancelAll`, `Del`, `CloseF` for `close`; `Socket`, `Lookup`, `Create` for
`socket`. With `Workers = 1` no other fiber comes in between, since a worker keeps a fiber until it
holds. The module is faithful to one worker only: `cancel_event` and `cancel_all` are one step here
and take no lock in the code (`iomanager.cc:183,225`), and `AddEvent` includes the yield, in which a
second worker can take the fiber too early (`SchedHoldRace`). `IOManager` and `Scheduler` have those
steps apart.
`TakeFiber`, `TakeCb`, `RunCb` and `Poll` are the pool: a FIFO of fibers and of timers' callbacks,
and a pass of `idle()`.

`CallThrough` is a call that goes to libc as it is (no context, no socket, or non-blocking by the
user's wish); the fiber is then in libc (`LibcReturns`), and for as long as the call blocks the
worker is blocked with it. `Stuck` says that a worker stands in libc.

* Durations are left open: a timer that was added may expire in any pass of `idle()`. What a
  callback may act on is exact: it refers to one call (the weak pointer to `timer_info`) and
  carries the number of its wait, modulo 3, so that a late callback is told from the current one.
* `read` stands for its family, `write` for its own; `accept` is a `read` followed by the second
  half of `socket`.
* Nothing in the code calls `FdCtx::init`, so a context becomes a socket, and a call holds, only
  after the application called it: at the beginning for the descriptors in `Managed`, later with `InitCtx`.
* The application uses one opening of a descriptor from one fiber at a time (unless `FullDuplex`)
  and uses none that is closed; another fiber may close a descriptor that someone waits on, and the
  number, opened again, may be used while that call is still under way.
* `gen` is history: how often a number was opened, and for which opening a context or a call is.

### Config and Log

A write section of the variable's lock is one action; the read lock is held while a loader is in
place `calling`, which keeps writers out. `Load` is `LoadFromYaml` up to `setValue`, with the
conversion as a function on the texts it accepts (`FromStr`; what is outside its domain makes it
throw). `CompareValue`, `Called`, `EndCalls`, `Store` are `setValue`.

`Log` refines the call of one listener, LogIniter's, into steps on the loader's thread:
`EnterListener` (its log message), `PickDefine` (choose or build the logger, set its level),
`SetFormatter`, `AddAppender`, `Publish` per define, then `Silence` and `Clear` per removed name.
Users fetch a logger or keep one, and pass the level check of the macro, the check of `Logger::log`
and the mutex one after the other, so that the listener can come in anywhere. A logger keeps its
mutex (`lock`) while it waits for the root logger's; `DumpAll` and `DumpLogger` keep the manager's
(`mgr`) while they wait for each logger's. Other locked sections take no second lock and are one
action. Names are integers; the root logger's is 0. A null logger that is dereferenced sets
`crash`. `res` is history: what became of a user's last message; `told` and `late` are too.

`LogFormatter` is a translation of the loop of `init()`. Its reference is the comment above it
(`log.cc:482-483`): `Token` reads a pattern from left to right into text, `%xxx`, `%xxx{xxx}` with any
format up to the next `}`, and `%%`; `Meaning` is what the tokens stand for, `WellFormed` that there
is nothing else. `Misread` names the tokens that `init()` reads differently. `LogDefine` translates both conversions on nodes with optional keys.

### Thread

`ReadName`, `SetId`, `SwapCb`, `Notify` are the uses of the object in `run()`; `touched` records one
that comes when the object is gone. The constructor is `Construct` and the wait on the semaphore;
both system calls may fail `MaxFaults` times, and then it throws. `Start`, `CreateWorker`, `StoreWorker`, `StartReturn`
are `Scheduler::start`, with `m_mutex` held (`locked`) throughout; a worker's callback is
`Scheduler::run`, of which only the first lock and the end matter here. `JoinWorker` dereferences
what is in `m_threads`, null entries too.

## 3. What is checked

### Runs that pass

| run | instance | shows |
|---|---|---|
| `SchedWorkers` | two workers, two callbacks, one fiber, two rounds of start and stop; functions throw, spawn, yield; entries pinned to a worker | `ExclusiveExecution`, `OneRepresentative`, `ActiveCountExact`; the scheduler implements `TaskPool` (`ImplementsPool`); `StopReturns` and `JobsComplete` |
| `SchedHold` | one worker; callbacks and a fiber hold | a held function always has a reference and never two (`HeldIsReferenced`), it completes (`HeldJobsComplete`), and `cb_fiber` is given up so that `reset` never meets it (`NoAssertionFails`) |
| `SchedRoot` | the caller's thread alone | `stop()` without `start()` drains the list in the root fiber (`DrainedAtJoin`) and returns |
| `TimerAll` | two pollers, one-shot and recurring timers, every call | until a data race, the manager implements `TimerService` (`ImplementsService`): no callback is listed early, after its cancel, or, one-shot, twice; `NoTimerLost`, `OneOwner`, `DueIsServed` |
| `IOOneThread` | one thread, READ and WRITE, errors, all operations | `Consistent`, `PendingCountExact`, `NoLostEdge`, `ReadyIsDelivered` |
| `IdleTimers` | two workers, tasks and timers from tasks, timers from the application | `NoOversleep`, `NoLostTask`, `IdleCountExact` |
| `IdleAlone` | one worker, tasks and timers, a signal | `AllServedAtExit`, `StopWakesAll`, and that timers are served and `stop()` returns (`TimersServed`, `StopCompletes`) |
| `HookIO` | one worker, two fibers on one descriptor, which is managed at first, every hooked call | `WokenOnce`, `StaysWatched`, `TimeoutIsReal`, `FreshContext`, `NeverBlocksWorker`; a wait with a timeout ends (`TimedWaitEnds`) and a fiber that can read or connect is resumed (`ReadyResumes`), unless the worker is blocked in libc for ever or an assertion ended the process (`NoMoreWork`) |
| `LogConfig` | one loader with two documents of six, a user with two messages, a dumper; all patterns up to five characters, all documents of one node with up to three appenders and of two nodes | `ConfigApplied`: the loggers follow the stored value and every listener knows it; `NothingDropped`: no message meets a half-configured logger; `CallsReturn`: no circle of locks; `PatternsParse`: a pattern is accepted and rendered as its tokens mean exactly when it is well formed and has no token of the three kinds that `init()` misreads, and what is not well formed is rejected; `RoundTrip`: what is written out is read back |
| `PoolStart` | a pool of three workers beside a thread of the application; two failing system calls | `HandshakeHolds`: `run()` uses no object that is gone and ids are read after they are set; `StartReturns`: `start()` and `stop()` return |

### Runs that show a disagreement

| run | what happens |
|---|---|
| `SchedHoldRace` | `Yield_to_Hold` sets HOLD before `swapOut` saves the context (`fiber.cc:217`); a fiber that is scheduled again at that moment is dispatched by a second worker |
| `TimerEmpty` | two pollers: the set found non-empty under the read lock is empty under the write lock (`timer.cc:171`) |

More disagreements can be seen by changing constants:

| module | constants (others as in the named run) | property that fails |
|---|---|---|
| `Scheduler` | `Workers = {w1}`, `UseCaller = TRUE`, one callback without operations, `MaxRounds = 1` (SchedWorkers) | `StopReturns`: with `use_caller`, `stop()` after `start()` calls the root fiber (`scheduler.cc:118`) before it sets `m_stopping` (121); the root fiber ends only when `stopping()` holds |
| `Scheduler` | one worker, two callbacks, `CbOps = {"ready"}`, `MaxYields = 1` (SchedWorkers) | `NoAssertionFails`: a callback's fiber that yields READY is listed and also kept in `cb_fiber`, and the next callback resets it (`scheduler.cc:282,292`; `fiber.h:39` allows reset only in INIT and TERM) |
| `Scheduler` | `CbOps = {"spawn"}`, `SpawnPins = {w1}` (SchedWorkers) | `StopReturns`: `w1` leaves `run()` while another worker has taken an entry and not counted itself active yet (213-234); what it then pins to `w1` is never run |
| `Scheduler` | `MaxRounds = 2` (SchedRoot) | `NoAssertionFails`: the root fiber is called again after it ended (`scheduler.cc:118`, `fiber.cc:277`) |
| `TimerManager` | `NoTimerLost` with its second part for recurring timers too (TimerAll) | a recurring timer cancelled while the unlocked loop holds it is inserted again without its callback (`timer.cc:201`) |
| `TimerManager` | `~raced` as an invariant (TimerAll) | behind the first recurring timer of a pass, `add_timer` inserts into the set without the lock (`timer.cc:104` from 201) and callbacks are copied and cleared without it (196, 203), while another thread adds, cancels, refreshes, resets or polls |
| `IOManager` | two threads, `AppOps = {"del"}`, no errors, `MaxAdds = 2` (IOOneThread) | `PendingCountExact`: `del_event` does not lock (`iomanager.cc:141`, against the comment at 139); racing with a poller it counts an event down twice |
| `IOManager` | two threads, no operations (IOOneThread) | `NoAssertionFails`: reported events are not masked by the registered ones (`iomanager.cc:403-412`), so a stale result triggers an event that is not registered (454) |
| `IOManager` | two threads, `AppOps = {"cancel"}` | `NoAssertionFails`: `cancel_event` clears the context after scheduling, and `add_event` of the resumed function finds it filled (112) |
| `IdleLoop` | one thread, `ForeignOps = {"timer"}` (IdleAlone) | `AllServedAtExit`: a timer added after the timeout was read and before the thread ends stays (`iomanager.cc:278-281`) |
| `IdleLoop` | two threads (IdleAlone) | `StopWakesAll`: one thread drains the bytes meant for both; `AllServedAtExit`: a worker whose idle fiber ended still runs a task, which adds a timer |
| `IdleLoop` | two threads, `ForeignOps = {"task"}`, `TaskOps = {"task"}`, `MaxTasks = 2` (IdleTimers) | `NoLostTask`: a task scheduled between a worker's scan and its `++m_idle_thread_count` (`scheduler.cc:312`) is not announced (`iomanager.cc:268`): everyone sleeps until the timeout |
| `Hook` | `FullDuplex = TRUE` (HookIO) | `NoAssertionFails`: reader and writer of one descriptor both register `(Event)(1)` (`hook.cc:153`) |
| `Hook` | `WriteResumes` as a property (HookIO) | a `write` that would block waits for READ for the same reason, so space to write does not resume it |
| `Hook` | `NonblockArgs = {TRUE, FALSE}` (HookIO) | `NeverBlocksWorker`: `ioctl` passes the user's wish on (`hook.cc:531-533`) where `fcntl` keeps the descriptor non-blocking |
| `Hook` | `Workers = 2` (HookIO) | `StaysWatched`: a fiber registers again between `cancel_all` and `close_f` (`hook.cc:426-429`) and waits for ever; with `CHECK_DEADLOCK FALSE`, `TimeoutIsReal`: the callback of an earlier wait of the call marks the present one, and `TimedWaitEnds`: the timer expires before `add_event`. The module leaves out what else two workers can do between the steps of the event operations, so these are some of the failures and not all |
| `Hook` | `NoAssertionFails` as an invariant (HookIO) | a reader that `close` has woken retries on the number, which has been opened again, and meets the registration of the new descriptor's reader: the assertion of `add_event` fails (`iomanager.cc:112`) |
| `Hook` | `~Stuck` as an invariant (HookIO) | a call on a number that was closed and opened again, and not initialised, blocks in libc (`hook.cc:105,116`) |
| `Hook` | `StaysWatched` with `loc[f].gen = gen[fd]` added (HookIO) | `FdCtx::close` is empty, so the `isClosed` test of `do_io` (`hook.cc:108`) never holds and comes before the retry anyway: a reader that `close` has woken retries on the number, which has been opened and initialised again, and waits on the new descriptor |
| `Log` | `~crash` as an invariant (LogConfig) | a document that changes one define and repeats another leaves the repeated one a null logger (`log.cc:779-784`) |
| `Log` | two loaders (LogConfig) | `ConfigApplied`: both call the listeners before either stores (`config.h:204-213`), so the value told last and the value stored differ |
| `Log` | `ConfigApplied` without `late` (LogConfig) | a listener added between the listener loop and the store is never told (`config.h:211-213`; the comment at 200 says that setting a value triggers the listeners) |
| `Log` | `NothingDropped` without its second and third alternative (LogConfig) | a logger built for a define has no root logger to fall back to (`log.cc:777`, against the comment at 811): defined without appenders it drops everything |
| `LogFormatter` | `PatternsParse` without the first case of `Misread` (LogConfig) | of `%%` the first `%` becomes text and the second starts a directive (`log.cc:494-498`, against the third case of the comment at 482-483): `%%m` writes `%` and the message |
| `LogFormatter` | `PatternsParse` without the second or third case of `Misread` (LogConfig) | the loop stops at characters that are no letters (507-510), so that `%d{%Y-%m-%d}`, the kind of format `DateTimeFormatItem` has as its default (192-196), is rejected; a `}` behind a name is taken into it, so that `%m}` is rejected |
| `Thread` | `HandshakeHolds` with `touched = {}` (PoolStart) | a `sem_wait` that fails frees the object under the new thread (`thread.cc:79`) |
| `Thread` | `mpc # "crash"` as an invariant (PoolStart) | `stop()` after a `start()` that threw dereferences the null entries (`scheduler.cc:146`); `m_stopping` is false by then, so calling `start()` again does nothing |

Read off the source while modelling, without a run: a define of a name that is in use replaces the
logger, and whoever fetched it before (every `static g_logger`) keeps the unconfigured object
(`log.cc:777`); a define named `root` replaces the entry of that name but not what
`SYLAR_LOGGER_ROOT()` returns; a changed define adds its appenders to those the logger has
(791-800); the levels and the Stdout formatter of appenders in a document are not read (700-717);
`FileLogAppender::toYamlString` writes the Stdout type (420); each message truncates the file
(430-445); a key with a capital letter is dropped before it would be made lower case (`config.cc:18`
and 43-44); a `Lookup` with another type replaces the variable (`config.h:268-283`). `Thread`'s
constructor returns when the callback has been taken over, not when it "has been called"
(`thread.cc:78`); `SetName` in a detached thread writes to an object that is gone (55).

Since nothing in the code calls `FdCtx::init`, a blocking call on a descriptor that the application
did not initialise is the normal case, and it keeps its worker (`Stuck`); so does a fiber that
`close` has woken and that retries on the number when it is a new, blocking descriptor. Both are
steps of the model. The liveness properties of `HookIO` therefore end in `NoMoreWork`: the process is
over, or the worker is blocked for ever. They say that these are the only two reasons for which a
wait that could end does not. Data that arrives releases the worker again, so being blocked for a
time is no excuse.

`TypeOK` is a theorem about `Scheduler`, `TimerManager`, `IOManager`, `Hook` and `Thread`. In the
other modules it documents the state; it holds in their runs. `NoAssertionFails` is listed only
for `SchedHold`: elsewhere a failed assertion ends the behaviour, and the liveness properties of
the run would show it.

### Bounds

Two workers are enough for every race between threads that the code can have in pairs (scan and
scan, yield and dispatch, active count and `stopping()`); two callbacks are needed for the reuse of
`cb_fiber`, a fiber in addition for the other branch of `run()`. Two rounds make `start()` follow a
`stop()`. Two yields make a fiber come back to a thread it has been on. In `TimerManager` two
timers with equal and different deadlines give every order of the comparator, two pollers give the
unlocked loop its competitor, one of them a second recurring timer behind the first (222,495
states), and the clock runs past both deadlines; `Over` lets a behaviour end
when the clock is used up, and `DueIsServed` needs no tick after that. In `IOManager` three
registrations let an event be registered again after it was withdrawn or triggered. In `IdleLoop`
`Delays` includes 0 (due at once) and a value below `MAX_TIMEOUT`, so that both sides of the
minimum in `idle()` occur. In `Hook` the descriptor is managed from
the start, so that five calls of all fibers together hold a timed wait that is closed under the waiter
(`setsockopt`, the call that waits, `close`), whose number is opened again and used by another call,
initialised or not (83,532 states; six calls pass too and take five minutes). In `Log` two loads give every pair of
documents (new, changed, removed, repeated define), one user and one dumper every pair of lock
orders, two messages a logger that is fetched before and used after a reconfiguration. Five
characters of pattern, out of `%`, two keys, another letter, both braces and `-`, hold a directive with
a format of one character of any kind, two directives, or `%%` before, behind and between text.
In `Thread` three workers fail at the first, a middle and the last place; the application's thread is dropped
with and without `join`.

Two runs switch the deadlock check off: `LogConfig` ends when the loads, messages and dumps are
used up or a null logger has ended the process, `PoolStart` when every thread has ended.

`SYMMETRY` is used only for `IdleTimers`, which checks invariants and no liveness; the workers
occur symmetrically in that module.

### Fairness

Liveness is checked under weak fairness of each thread's own steps (the kernel schedules runnable
threads, and functions given to the scheduler end), of the rest of `stop()` once called, of an owed
`tickle()`, of the passage of time, and of the external party that resumes a fiber that holds. The
application never has to schedule, start, stop, add or cancel anything. `JobsComplete` holds while
the scheduler is started; where fibers hold it is only promised as long as nobody stops
(`HeldJobsComplete`), since `stop()` does not wait for held fibers.

In `Log` threads inside a call go on (weak fairness; the calls are few, so a mutex is passed on);
nobody has to load, log or dump. In `Thread` nothing has to fail, and the application's callbacks return.

In `Hook`, serving a timer or a reportable event in a pass of `idle()` is strongly fair: passes are
interrupted by work, but each of them lists every timer that is due and every event epoll reports.

## 4. What is proved

Every theorem holds for every value of the constants that satisfies the assumptions of its module
(finite sets of threads, descriptors, fibers; pins that name threads) and its own hypotheses. Each
inductive invariant was checked with TLC under the run's constants before it was proved. A theorem
has a hypothesis where the code does not have the property without it; the table of disagreements
in section 3 has the counterexample for nearly every one of them.

| theorem | property | hypotheses |
|---|---|---|
| `SchedulerProofs!TypeCorrect` | `TypeOK` | |
| `SchedulerProofs!ActiveCountCorrect` | `ActiveCountExact` | |
| `TaskProofs!ExclusiveCorrect` | `ExclusiveExecution` | functions do not hold, callbacks do not yield READY (`NoHolds`) |
| `TaskProofs!RepresentativeCorrect` | `OneRepresentative` | `NoHolds` |
| `TaskProofs!AssertionsHold` | `NoAssertionFails` | `NoHolds`; with `use_caller`, one `stop()` |
| `TaskProofs!DrainCorrect` | `DrainedAtJoin` | `NoHolds`; functions pin nothing, or there is one thread (`PinsSafe`) |
| `TaskProofs!PoolImplemented` | `ImplementsPool` (refinement) | `NoHolds`, `PinsSafe` |
| `TaskProofs!HeldCorrect` | `HeldIsReferenced` | functions may hold; one thread, callbacks do not yield READY (`HoldsSafe`) |
| `TaskProofs!HeldAssertionsHold` | `NoAssertionFails` | `HoldsSafe`; with `use_caller`, one `stop()` |
| `TimerProofs!TypeCorrect` | `TypeOK` | |
| `TimerProofs!TimersKept` | `NoTimerLost` | (the property is up to a race) |
| `TimerProofs!OneShotTimersKept` | `NoTimerLost`, and no race is reachable | no timer is recurring |
| `TimerProofs!OwnersApart` | `OneOwner` | (up to a race) |
| `TimerProofs!ServiceImplemented` | `ImplementsService` (refinement) | (up to a race) |
| `IOManagerProofs!TypeCorrect`, `AssertionsHold` | `TypeOK`, `NoAssertionFails` | one thread |
| `IOManagerProofs!ConsistentCorrect` | `Consistent` | one thread |
| `IOManagerProofs!PendingCountCorrect` | `PendingCountExact` | one thread |
| `IOManagerProofs!NoLostEdgeCorrect` | `NoLostEdge` | one thread |
| `IdleLoopProofs!IdleCountCorrect` | `IdleCountExact` | |
| `IdleLoopProofs!NoLostTaskCorrect` | `NoLostTask` | tasks are scheduled by the pool's threads |
| `IdleLoopProofs!NoOversleepCorrect` | `NoOversleep` | no signals |
| `IdleLoopProofs!AllServedCorrect` | `AllServedAtExit` | one thread; timers are added by its tasks |
| `IdleLoopProofs!StopWakesCorrect` | `StopWakesAll` | one thread |
| `HookProofs!TypeCorrect` | `TypeOK` | |
| `HookProofs!WokenOnceCorrect` | `WokenOnce` | one worker, see `Hook` in section 2 |
| `HookProofs!FreshContextCorrect` | `FreshContext` | |
| `HookProofs!NeverBlocksCorrect` | `NeverBlocksWorker` | nobody calls `ioctl(FIONBIO, 0)` |
| `HookProofs!TimeoutCorrect` | `TimeoutIsReal` | one worker |
| `HookProofs!StaysWatchedCorrect` | `StaysWatched` | one worker |
| `LogProofs!TypeCorrect` | `TypeOK` | one loader |
| `LogProofs!ConfigAppliedCorrect` | `ConfigApplied` | one loader |
| `LogProofs!NothingDroppedCorrect` | `NothingDropped` (action property) | one loader |
| `ThreadProofs!TypeCorrect` | `TypeOK` | |
| `ThreadProofs!HandshakeCorrect` | `HandshakeHolds` | |

The arguments:

* **Scheduler, counts.** `TypeOK` alone is not inductive: `Resume` and the steps behind it use
  `Cur(t)`, which is a fiber only because a thread that dispatched something has something
  dispatched (`Dispatched`). `Start` and `Stop` move threads to `scan`; that this disturbs no active
  thread needs `Parked`: no worker is inside `run()` between a `stop()` and the next `start()`, and
  the root thread only while `stop()` runs its fiber. Each action then changes one `pc` entry and
  the cardinality by at most one.
* **Scheduler, functions** (`TaskProofs`). The invariant gives every scheduled function one of three
  places: an entry of the list, an entry a thread has copied, a fiber a thread has dispatched; no two
  entries are of one function and no two threads have one fiber (`ListOK`, `Separate`). What is
  listed or taken can be dispatched (`Ready`): this is what `reset` and `swapIn` assert. A callback's
  fiber is either a thread's own `cb_fiber`, which ends before it is reused, or not at all in use.
  `Drain` adds that an entry which is there when threads leave is seen once more: a thread ends its
  idle fiber only when `stopping()` found list and active count empty, and whoever has taken an
  entry without having counted itself (`scheduler.cc:213-234`) scans again before it leaves.
  The steps of `TaskPool` are then read off `status`.
* **Scheduler, functions that hold** (last part of `TaskProofs`). A function that was scheduled and
  has not finished is referred to by one thing: an entry of the list with its callback, a fiber that
  is listed or that somebody will schedule (`Referred`), or the thread (`Claims`). `HoldInv` says so
  (`Claimed`), that no two references are to one fiber or function (`RefsOK`), and that every fiber
  referred to is suspended with its context saved, or new, unless the thread is still on it: a fiber
  that holds is handed over before `swapOut` saves its context (`Leaving`). With one thread nobody can
  enter it in between; with two they can, which is the run `SchedHoldRace` and the reason for
  `HoldsSafe`. Whenever the thread is not on its `cb_fiber` that fiber is in INIT (`Spare`), since
  `run()` gives it up when it holds; so `reset` never meets a fiber that holds. A callback that yields READY is listed and kept in
  `cb_fiber` as well (the second row of the table in section 3), so it is excluded. Most actions leave
  what the invariant reads alone or touch one fiber (`HoldKeeps`, `HoldPrivate`); the others are the
  scan, the dispatch, the end of a fiber and the two hand-overs. `HoldInv` was also checked with the
  root thread as the one thread and with two rounds of `start()` and `stop()`.
* **Timers.** A timer is in the set, in an unfinished `add_timer`, in a poller's hands or nowhere,
  and in at most one of them (`Apart`); the locals of an unlocked loop are timers that were extracted
  and their callbacks (`Loops`, `Live`); deadlines in the set have been stored (`Deadlines`). All of
  it is claimed until `raced` holds, and a state with `raced` takes no step (`UpToRace`). When no timer
  is recurring, the locked part of a pass is all of it, no poller is ever in the unlocked loop, and
  `Clash` is never enabled. For the refinement every step that makes no race is a step of
  `TimerService` on one timer or leaves all statuses alone.
* **IOManager.** With one thread at most one operation is under way. The invariant says, relative to
  the place it has reached, what epoll watches (`Watched`), which contexts are filled (`Filled`), how
  much of its work it has counted (`Counted`). Arrivals come in at every point.
* **Idle loop.** `TaskInv`: a waiting task means a thread that is awake, or an owed `tickle()`, or a
  byte in the pipe with its edge. `TimerInv`: whoever computed a timeout did so from the first timer,
  or the `on_timer_insert_at_front` that followed is owed or in the pipe; time passes for a sleep and
  for a timer alike. `ExitInv`, `WakeInv`: what the thread's last look at timers and list still implies.
* **Hook.** `TokenInv`: a fiber that holds has one wake-up call, in one place (the event, the task
  list, the pool of timers for a sleep, a worker's hands), any other fiber has none; a timer of a call
  only acts through the event, so it adds no second one. (The argument does not count workers, but the
  event operations are single steps only where there is one.) `CtxInv`: contexts and calls name openings
  that have been. `FlagInv`: where a context is a socket the descriptor is non-blocking. `SoloInv`:
  with one worker the callbacks that came with a pass of `idle()` run before any fiber goes on, so
  that a callback meets the wait it was added for. `WatchInv`: with one worker, `cancel_all`, the
  context and `close_f` are one step for everybody else.
* **Log.** While `setValue` runs, some names are as the new value says and some still as the stored
  one does, and which ones follows from its place and the listener's two sets (`Renewed`, `Pending`,
  `NamesFit`); every other registered logger is the root logger, falls back to it, or is silent. The
  logger under work has its level, formatter and first `k - 1` appenders (`ListenerFits`, `Equipped`)
  and, if its define is new, is known to nobody else; so a logger that has nowhere to write is off,
  or registered under a define without appenders (`LoggersFit`). `Told` follows the listeners. Users
  and dumpers only lock loggers or add ones that fall back to the root logger, which disturbs nothing
  (`UserFrame`).
* **Thread.** The owner waits, or `run()` is past its last use of the object, or the owner's
  `sem_wait` failed; the semaphore is posted by the last use.

Only model-checked:

* Liveness (`StopReturns`, `DrainingStopReturns`, `JobsComplete`, `HeldJobsComplete`, `DueIsServed`,
  `ReadyIsDelivered`, `TimersServed`, `StopCompletes`, `TimedWaitEnds`, `ReadyResumes`,
  `CallsReturn`, `StartReturns`): the prover does not do fairness and `ENABLED`.
* `PatternsParse` and `RoundTrip`: what folds over a pattern or a document compute, which needs
  induction over data.

Every other invariant and action property of the runs is stated by a theorem.

## 5. What is not modelled

* Stack allocation, ucontext internals, the thread's main fiber.
* Data-race effects below the level of one access: `m_state` and `m_stopping` are plain or atomic
  words, each access is atomic in the model, and the scan reads the states of listed fibers at one
  instant. The unlocked accesses to the timer set and to callbacks are not words and are not taken for
  atomic: see `TimerManager` in section 2.
* `detect_clock_rollover`, which nothing calls, and `add_condition_timer`, which wraps a callback.
* Use of one descriptor by fibers of several schedulers; growth of `m_fd_contexts`.
* Hook: several workers (the checks and `WokenOnceCorrect` are for one); calls of threads outside a pool (with the hook disabled the missing `return` at `hook.cc:98`
  makes `do_io` call libc's function and go on), durations and the 32-bit product of `sleep` (201),
  `F_GETFL` and the other commands of `fcntl`, several descriptors in one instance.
* Two threads that create a context for one number at once (`fd_manager.cc:70-92`): a number that
  is open is given out to one caller only, so the hooks do not reach it.
* Config: `Lookup` as an operation (all variables are registered before `main`), several variables
  in one instance, `clearListener` (nothing calls it; it takes no lock), the generic conversions.
  The only listener besides LogIniter's, on `tcp_connect_timeout`, logs the change and leaves
  `s_connect_timeout` as it is (`hook.cc:65-68`).
* Log: the text and the bytes written, `Filter`, `delAppender`, `LogEvent`; the mutex of an appender
  (taken last, held for one write).
* Thread: `Spin_Mutex`, which nothing uses; failures of `sem_init`, `sem_post` and `pthread_join`.
* Address has declarations and stubs only, and the utilities have no state of their own.

## 6. Plan

Done: `Fiber`, `Scheduler` with `TaskPool`, `TimerManager` with `TimerService`, `IOManager`,
`IdleLoop`, `FdManager`, `Hook`, `Config`, `LogDefine`, `LogFormatter`, `Log`, `Thread`; the theorems
of section 4.

What a further step would take: `OneRepresentative` and `DrainedAtJoin` for functions that hold need
a `stop()` that waits for them, which the code does not have; for several threads the hand-over in
`Yield_to_Hold` and the marking of threads that leave `run()` would have to change first (section 3).
`PatternsParse` and `RoundTrip` wait for induction over sequences in the prover.
