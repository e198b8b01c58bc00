------------------------------- MODULE Hook --------------------------------
(***************************************************************************)
(* The hooked system calls (src/sylar/hook.cc) as fibers of an IOManager   *)
(* make them: a call that would block registers an event and a condition   *)
(* timer, lets the fiber hold and tries again when it is scheduled.        *)
(* "read" stands for read, readv, recv, recvfrom and recvmsg, "write" for  *)
(* write, writev, send, sendto and sendmsg.                                *)
(*                                                                         *)
(* A worker keeps its fiber until the fiber holds, also while it is blocked*)
(* in a call of libc.  The IOManager appears through its interface:        *)
(* add_event with the Yield_to_Hold behind it, cancel_event and cancel_all *)
(* are one step each.  That is faithful to Workers = 1 only: cancel_event  *)
(* and cancel_all take no lock (iomanager.cc:183, 225), and a fiber is on  *)
(* hold before its context is saved (fiber.cc:217), so with more workers   *)
(* another one can come in.  Modules IOManager and Scheduler have these    *)
(* steps apart.                                                            *)
(* How long a timer runs is left open: a timer that was added may expire   *)
(* in every pass of idle().                                                *)
(***************************************************************************)
EXTENDS FdManager, Integers, Sequences, FiniteSets, Functions

CONSTANTS
    Fds,         \* descriptor numbers of sockets
    Managed,     \* those FdCtx::init was called for at the beginning
    Fibers,      \* fibers that make system calls
    NoFiber,
    Workers,     \* number of threads of the pool (see above)
    Ops,         \* which calls the fibers make
    NonblockArgs,\* what they pass to ioctl(FIONBIO)
    FullDuplex,  \* whether two fibers may use one descriptor at a time
    MaxCalls     \* bound on the calls of all fibers

IoOps == {"read", "write", "connect"}

ASSUME HookAssumption ==
    /\ IsFiniteSet(Fds) /\ Fds # {} /\ Managed \subseteq Fds
    /\ IsFiniteSet(Fibers) /\ NoFiber \notin Fibers
    /\ Workers \in Nat \ {0}
    /\ Ops \subseteq IoOps \cup {"close", "socket", "init", "fcntl", "ioctl",
                                 "setsockopt", "sleep"}
    /\ NonblockArgs \subseteq BOOLEAN
    /\ FullDuplex \in BOOLEAN
    /\ MaxCalls \in Nat

VARIABLES
    m_datas,             \* FdManger's contexts
    \* the kernel (external)
    gen,                 \* how often the number was opened
    open, ready,         \* open descriptors; what they are ready for
    nonblock,            \* descriptors with O_NONBLOCK
    watched,             \* events epoll watches
    \* the IOManager
    m_events,            \* which fiber is registered for an event
    timers,              \* m_timers
    m_fibers,            \* the task list: fibers and callbacks of timers
    inHand,              \* callbacks that a worker has taken
    \* fibers
    pc, loc, calls, crash

kernel == <<gen, open, ready, nonblock, watched>>
iom == <<m_events, timers, m_fibers, inHand>>
fibers == <<pc, loc, calls>>
vars == <<m_datas, kernel, iom, fibers, crash>>

Events == {"READ", "WRITE"}

\* A timer and its callback: the call (whose timer_info the weak pointer
\* refers to) and the wait it was added for.  Waits are numbered modulo 3.
Timer == [fiber : Fibers, call : Nat, wait : 0..2, sleeps : BOOLEAN]

Task == [kind : {"fiber"}, fiber : Fibers] \cup [kind : {"cb"}, timer : Timer]
FiberTask(f) == [kind |-> "fiber", fiber |-> f]
CbTask(tm) == [kind |-> "cb", timer |-> tm]

\* Locals of a call.  `cancelled` is tinfo->cancelled: 3 stands for 0, another
\* value for ETIMEDOUT and names the wait whose timer set it.  `gen` is the
\* descriptor the call was made for.
NotCancelled == 3
Locals == [op : Ops \cup {"none"}, fd : Fds, timed : BOOLEAN, wait : 0..2,
           cancelled : 0..3, gen : Nat]

\* Those of a fiber that is in no call.
NoCall == [op |-> "none", fd |-> CHOOSE fd \in Fds : TRUE, timed |-> FALSE,
           wait |-> 0, cancelled |-> NotCancelled, gen |-> 0]

Off == {"new", "wait", "sleep", "done"}
PcValues == Off \cup {"user", "libc", "try", "arm", "add", "back", "cancel",
                      "del", "closef", "lookup", "create"}

\* The type invariant.
TypeOK ==
    /\ m_datas \in [Fds -> FdCtx]
    /\ gen \in [Fds -> Nat]
    /\ open \subseteq Fds /\ nonblock \subseteq Fds
    /\ ready \in [Fds -> SUBSET Events] /\ watched \in [Fds -> SUBSET Events]
    /\ m_events \in [Fds -> [Events -> Fibers \cup {NoFiber}]]
    /\ timers \subseteq Timer /\ inHand \subseteq Timer
    /\ m_fibers \in Seq(Task)
    /\ pc \in [Fibers -> PcValues]
    /\ loc \in [Fibers -> Locals]
    /\ calls \in [Fibers -> Nat]
    /\ crash \in BOOLEAN

\* Some order of a set of tasks.
Orders(S) == {q \in [1..Cardinality(S) -> S] : \A x \in S : \E i \in DOMAIN q : q[i] = x}

\* The sockets are open and known, FdCtx::init has been called for some of
\* them; the fibers, which all do the same, have been scheduled.
Init ==
    /\ m_datas = [fd \in Fds |-> IF fd \in Managed THEN InitFdCtx(NewFdCtx(1))
                                  ELSE NewFdCtx(1)]
    /\ gen = [fd \in Fds |-> 1]
    /\ open = Fds /\ nonblock = Managed
    /\ ready = [fd \in Fds |-> {}] /\ watched = [fd \in Fds |-> {}]
    /\ m_events = [fd \in Fds |-> [e \in Events |-> NoFiber]]
    /\ timers = {} /\ inHand = {}
    /\ m_fibers = CHOOSE q \in Orders({FiberTask(f) : f \in Fibers}) : TRUE
    /\ pc = [f \in Fibers |-> "new"]
    /\ loc = [f \in Fibers |-> NoCall]
    /\ calls = [f \in Fibers |-> 0]
    /\ crash = FALSE

Goto(f, l) == pc' = [pc EXCEPT ![f] = l]

-----------------------------------------------------------------------------
(* The pool: workers take tasks in order; an idle one polls. *)

Running == {f \in Fibers : pc[f] \notin Off}
SomeoneIsFree == Cardinality(Running) + Cardinality(inHand) < Workers

TakeFiber ==
    /\ SomeoneIsFree /\ m_fibers # <<>> /\ Head(m_fibers).kind = "fiber"
    /\ m_fibers' = Tail(m_fibers)
    /\ LET f == Head(m_fibers).fiber
       IN  Goto(f, IF pc[f] = "wait" THEN "back" ELSE "user")
    /\ UNCHANGED <<m_datas, kernel, m_events, timers, inHand, loc, calls, crash>>

TakeCb ==
    /\ SomeoneIsFree /\ m_fibers # <<>> /\ Head(m_fibers).kind = "cb"
    /\ m_fibers' = Tail(m_fibers)
    /\ inHand' = inHand \cup {Head(m_fibers).timer}
    /\ UNCHANGED <<m_datas, kernel, m_events, timers, fibers, crash>>

\* The registered fibers that an event of the kernel can wake.
Reportable == {x \in open \X Events : /\ x[2] \in watched[x[1]] \cap ready[x[1]]
                                      /\ m_events[x[1]][x[2]] # NoFiber}

\* Mutant: a triggered event stays registered.
WithoutNone(E) == m_events

\* The registrations after the events of E were triggered or withdrawn.
Without(E) == [fd \in Fds |-> [e \in Events |->
                  IF <<fd, e>> \in E THEN NoFiber ELSE m_events[fd][e]]]

WatchedWithout(E) == [fd \in Fds |-> watched[fd] \ {e \in Events : <<fd, e>> \in E}]

TasksOf(E) == {FiberTask(m_events[x[1]][x[2]]) : x \in E}

\* A pass of idle(): the callbacks of the timers that expired are scheduled,
\* then the fibers of the events that happened.
Poll(X, E) ==
    /\ SomeoneIsFree /\ (m_fibers = <<>> \/ Workers > 1)
    /\ X \cup E # {} /\ X \subseteq timers /\ E \subseteq Reportable
    /\ timers' = timers \ X
    /\ \E q \in Orders({CbTask(tm) : tm \in X}), r \in Orders(TasksOf(E)) :
            m_fibers' = m_fibers \o q \o r
    /\ m_events' = Without(E)
    /\ watched' = WatchedWithout(E)
    /\ UNCHANGED <<m_datas, gen, open, ready, nonblock, inHand, fibers, crash>>

\* The timer_info of the call a timer was added for still exists.
Alive(tm) == calls[tm.fiber] = tm.call
             /\ pc[tm.fiber] \in {"try", "arm", "add", "wait", "back"}

\* Mutant: the callback marks the call and leaves the event registered.
CancelsNothing(tm) == {}

\* What the callback's cancel_event finds: do_io withdraws READ, whatever the
\* call waits for, connect withdraws WRITE.
CancelsEvent(tm) ==
    LET fd == loc[tm.fiber].fd
        e == IF loc[tm.fiber].op = "connect" THEN "WRITE" ELSE "READ"
    IN  {x \in {<<fd, e>>} : m_events[fd][e] # NoFiber}

\* A timer's callback: sleep's schedules the fiber.  The condition timer's
\* does nothing when the call is over or cancelled; otherwise it marks the
\* call and cancels the event, which schedules the fiber registered for it.
RunCb(tm) ==
    /\ tm \in inHand
    /\ inHand' = inHand \ {tm}
    /\ IF tm.sleeps
       THEN /\ m_fibers' = Append(m_fibers, FiberTask(tm.fiber))
            /\ UNCHANGED <<loc, m_events, watched>>
       ELSE IF ~Alive(tm) \/ loc[tm.fiber].cancelled # NotCancelled
       THEN UNCHANGED <<loc, m_events, watched, m_fibers>>
       ELSE /\ loc' = [loc EXCEPT ![tm.fiber].cancelled = tm.wait]
            /\ \E q \in Orders(TasksOf(CancelsEvent(tm))) : m_fibers' = m_fibers \o q
            /\ m_events' = Without(CancelsEvent(tm))
            /\ watched' = WatchedWithout(CancelsEvent(tm))
    /\ UNCHANGED <<m_datas, gen, open, ready, nonblock, timers, pc, calls, crash>>

-----------------------------------------------------------------------------
(* Calls that may wait *)

\* The call returns to the fiber's function.
Return(f) == Goto(f, "user") /\ loc' = [loc EXCEPT ![f] = NoCall]

\* A fiber makes its next call.
Calls(f, op) ==
    /\ pc[f] = "user" /\ op \in Ops
    /\ SumFunction(calls) < MaxCalls
    /\ calls' = [calls EXCEPT ![f] = @ + 1]

\* Fiber g is inside a call for descriptor fd.
Uses(g, fd) == pc[g] \notin {"new", "user", "sleep", "done"} /\ loc[g].fd = fd

\* The application does not use a descriptor from two fibers at a time (an
\* earlier one that had the number is another descriptor), and uses none that
\* is closed, being closed or being opened.
Usable(fd) ==
    /\ fd \in open
    /\ \A g \in Fibers : Uses(g, fd) =>
            /\ FullDuplex \/ loc[g].gen # gen[fd]
            /\ loc[g].op \notin {"close", "socket"}

\* Which readiness a call needs, the event it registers, its timeout.
Needs(op) == IF op = "read" THEN "READ" ELSE "WRITE"

\* Mutant: the two events are mixed up.
RegistersOther(op) == IF op = "connect" THEN "READ" ELSE "WRITE"

\* do_io registers (Event)(1) whatever it was asked to wait for.
Registers(op) == IF op = "connect" THEN "WRITE" ELSE "READ"

Timed(op, fd) ==
    IF op = "connect" THEN TRUE
    ELSE HasTimeout(m_datas[fd], IF Needs(op) = "READ" THEN "RCV" ELSE "SND")

\* A call of libc that would block does not return.
Blocks(op, fd) == fd \in open /\ fd \notin nonblock /\ Needs(op) \notin ready[fd]

\* What the descriptor is ready for when the call has returned: it may have
\* taken everything there was.
ReadyAfter(op, fd) ==
    \E left \in {ready[fd], ready[fd] \ {Needs(op)}} : ready' = [ready EXCEPT ![fd] = left]

\* The head of do_io and connect_with_timeout: without a context, for what is
\* no socket or was made non-blocking by the user, libc's function is called
\* (connect fails without a context).  A context is no socket's until
\* FdCtx::init is called.
Passes(fd) == ~Exists(m_datas[fd]) \/ ~m_datas[fd].m_isSocket
              \/ m_datas[fd].m_user_nonblock

\* The call's arguments.
Begin(f, op, fd) ==
    loc' = [loc EXCEPT ![f] = [@ EXCEPT !.op = op, !.fd = fd, !.gen = gen[fd]]]

CallThrough(f, op, fd) ==
    /\ Calls(f, op) /\ op \in IoOps /\ Usable(fd)
    /\ Passes(fd)
    /\ IF op = "connect" /\ ~Exists(m_datas[fd])
       THEN UNCHANGED <<pc, loc>>
       ELSE Begin(f, op, fd) /\ Goto(f, "libc")
    /\ UNCHANGED <<m_datas, kernel, iom, crash>>

\* libc's function returns; until it does, the worker is blocked with it.
LibcReturns(f) ==
    /\ pc[f] = "libc"
    /\ ~Blocks(loc[f].op, loc[f].fd)
    /\ ReadyAfter(loc[f].op, loc[f].fd)
    /\ Return(f)
    /\ UNCHANGED <<m_datas, gen, open, nonblock, watched, iom, calls, crash>>

CallWaiting(f, op, fd) ==
    /\ Calls(f, op) /\ op \in IoOps /\ Usable(fd)
    /\ ~Passes(fd)
    /\ loc' = [loc EXCEPT ![f] = [op |-> op, fd |-> fd, timed |-> Timed(op, fd),
                                  wait |-> @.wait, cancelled |-> NotCancelled,
                                  gen |-> gen[fd]]]
    /\ Goto(f, "try")
    /\ UNCHANGED <<m_datas, kernel, iom, crash>>

\* libc's function is called: it succeeds (and may leave data behind), fails
\* on a closed descriptor, or gives EAGAIN (EINPROGRESS for connect).  After
\* EINTR it is called again.
Try(f) ==
    /\ pc[f] = "try"
    /\ LET fd == loc[f].fd
           op == loc[f].op
       IN  /\ ~Blocks(op, fd)
           /\ IF fd \in open /\ Needs(op) \notin ready[fd]
              THEN Goto(f, "arm") /\ UNCHANGED <<ready, loc>>
              ELSE Return(f) /\ ReadyAfter(op, fd)
    /\ UNCHANGED <<m_datas, gen, open, nonblock, watched, iom, calls, crash>>

TimerOf(f) == [fiber |-> f, call |-> calls[f], wait |-> loc[f].wait, sleeps |-> FALSE]

\* EAGAIN: the condition timer is added, for a new wait.
Arm(f) ==
    /\ pc[f] = "arm"
    /\ loc' = [loc EXCEPT ![f].wait = (@ + 1) % 3]
    /\ timers' = IF loc[f].timed
                 THEN timers \cup {[TimerOf(f) EXCEPT !.wait = loc'[f].wait]}
                 ELSE timers
    /\ Goto(f, "add")
    /\ UNCHANGED <<m_datas, kernel, m_events, m_fibers, inHand, calls, crash>>

\* Mutant: the timer is not cancelled.
KeepTimer(f) == timers

\* timer->cancel().
CancelTimer(f) == timers \ {TimerOf(f)}

\* add_event with the fiber as its callback, then Yield_to_Hold.  It asserts
\* that nobody is registered for the event, and fails when epoll_ctl does.
AddEvent(f) ==
    /\ pc[f] = "add"
    /\ LET fd == loc[f].fd
           e == Registers(loc[f].op)
           isMod == \E x \in Events : m_events[fd][x] # NoFiber
       IN  IF m_events[fd][e] # NoFiber
           THEN crash' = TRUE /\ UNCHANGED <<m_events, watched, timers, pc, loc>>
           ELSE /\ UNCHANGED crash
                /\ IF fd \notin open \/ isMod # (watched[fd] # {})
                   THEN /\ timers' = CancelTimer(f)
                        /\ Return(f)
                        /\ UNCHANGED <<m_events, watched>>
                   ELSE /\ m_events' = [m_events EXCEPT ![fd][e] = f]
                        /\ watched' = [watched EXCEPT ![fd] = @ \cup {e}]
                        /\ Goto(f, "wait")
                        /\ UNCHANGED <<timers, loc>>
    /\ UNCHANGED <<m_datas, gen, open, ready, nonblock, m_fibers, inHand, calls>>

\* tinfo->cancelled.
TimedOut(f) == loc[f].cancelled # NotCancelled

\* Scheduled again: the timer is cancelled; a call that timed out and connect
\* return, another call is tried again.
Resume(f) ==
    /\ pc[f] = "back"
    /\ timers' = CancelTimer(f)
    /\ IF TimedOut(f) \/ loc[f].op = "connect" THEN Return(f)
       ELSE Goto(f, "try") /\ UNCHANGED loc
    /\ UNCHANGED <<m_datas, kernel, m_events, m_fibers, inHand, calls, crash>>

\* sleep, usleep and nanosleep.
Sleep(f) ==
    /\ Calls(f, "sleep")
    /\ timers' = timers \cup {[fiber |-> f, call |-> calls'[f], wait |-> 0,
                               sleeps |-> TRUE]}
    /\ Goto(f, "sleep")
    /\ UNCHANGED <<m_datas, kernel, m_events, m_fibers, inHand, loc, crash>>

-----------------------------------------------------------------------------
(* Opening and closing.  accept is a read of the listening socket followed by *)
(* what socket does with the new number.                                     *)

\* socket: the kernel gives a number that is free ...
Socket(f, fd) ==
    /\ Calls(f, "socket") /\ fd \notin open
    /\ gen' = [gen EXCEPT ![fd] = @ + 1]
    /\ open' = open \cup {fd}
    /\ ready' = [ready EXCEPT ![fd] = {}]
    /\ Begin(f, "socket", fd)
    /\ Goto(f, "lookup")
    /\ UNCHANGED <<m_datas, nonblock, watched, iom, crash>>

\* ... and getFdCtx(fd, true) finds a context under the read lock ...
Lookup(f) ==
    /\ pc[f] = "lookup"
    /\ IF Exists(m_datas[loc[f].fd]) THEN Return(f)
       ELSE Goto(f, "create") /\ UNCHANGED loc
    /\ UNCHANGED <<m_datas, kernel, iom, calls, crash>>

\* ... or stores a new one under the write lock.
Create(f) ==
    /\ pc[f] = "create"
    /\ m_datas' = [m_datas EXCEPT ![loc[f].fd] = NewFdCtx(gen[loc[f].fd])]
    /\ Return(f)
    /\ UNCHANGED <<kernel, iom, calls, crash>>

\* close, which may come while another fiber waits on the descriptor.
Close(f, fd) ==
    /\ Calls(f, "close") /\ fd \in open
    /\ \A g \in Fibers : Uses(g, fd) => loc[g].op \notin {"close", "socket"}
    /\ Begin(f, "close", fd)
    /\ Goto(f, IF Exists(m_datas[fd]) THEN "cancel" ELSE "closef")
    /\ UNCHANGED <<m_datas, kernel, iom, crash>>

\* Mutant: close forgets the events.
CancelAllNone(fd) == {}

\* The events cancel_all triggers.
CancelAllEvents(fd) == {x \in {fd} \X Events : m_events[fd][x[2]] # NoFiber}

\* cancel_all: who waits on the descriptor is scheduled, READ first.
CancelAll(f) ==
    /\ pc[f] = "cancel"
    /\ LET E == CancelAllEvents(loc[f].fd)
           T == [e \in Events |-> IF <<loc[f].fd, e>> \in E
                                  THEN <<FiberTask(m_events[loc[f].fd][e])>> ELSE <<>>]
       IN  /\ m_fibers' = m_fibers \o T["READ"] \o T["WRITE"]
           /\ m_events' = Without(E)
           /\ watched' = WatchedWithout(E)
    /\ Goto(f, "del")
    /\ UNCHANGED <<m_datas, gen, open, ready, nonblock, timers, inHand, loc, calls,
                   crash>>

\* Mutant: the context stays.
DelNothing(fd) == m_datas

\* delFdCtx.
DelFdCtx(fd) == [m_datas EXCEPT ![fd] = NoCtx]

Del(f) ==
    /\ pc[f] = "del"
    /\ m_datas' = DelFdCtx(loc[f].fd)
    /\ Goto(f, "closef")
    /\ UNCHANGED <<kernel, iom, loc, calls, crash>>

\* close_f: the kernel forgets the descriptor, also in epoll.
CloseF(f) ==
    /\ pc[f] = "closef"
    /\ open' = open \ {loc[f].fd}
    /\ nonblock' = nonblock \ {loc[f].fd}
    /\ watched' = [watched EXCEPT ![loc[f].fd] = {}]
    /\ Return(f)
    /\ UNCHANGED <<m_datas, gen, ready, iom, calls, crash>>

-----------------------------------------------------------------------------
(* Calls that change a descriptor *)

Known(fd) == Exists(m_datas[fd]) /\ m_datas[fd].m_isSocket

\* O_NONBLOCK of the descriptor is set or cleared.
SetFlag(fd, f) == nonblock' = IF f THEN nonblock \cup {fd} ELSE nonblock \ {fd}

\* FdCtx::init, called by the application on the context of its socket.
InitCtx(f, fd) ==
    /\ Calls(f, "init") /\ Usable(fd) /\ Exists(m_datas[fd])
    /\ m_datas' = [m_datas EXCEPT ![fd] = InitFdCtx(@)]
    /\ IF m_datas[fd].m_isInit THEN UNCHANGED nonblock ELSE SetFlag(fd, TRUE)
    /\ UNCHANGED <<gen, open, ready, watched, iom, pc, loc, crash>>

\* Mutant: the user's wish is passed on.
UserFlag(fd, arg) == arg

\* What fcntl(F_SETFL) passes on: for a socket, what the system needs.
SysFlag(fd, arg) == IF Known(fd) THEN m_datas[fd].m_sys_nonblock ELSE arg

\* fcntl(F_SETFL): the user's wish is remembered.
Fcntl(f, fd, arg) ==
    /\ Calls(f, "fcntl") /\ Usable(fd)
    /\ m_datas' = IF Known(fd) THEN [m_datas EXCEPT ![fd] = SetUserNonblock(@, arg)]
                  ELSE m_datas
    /\ SetFlag(fd, SysFlag(fd, arg))
    /\ UNCHANGED <<gen, open, ready, watched, iom, pc, loc, crash>>

\* ioctl(FIONBIO): the wish is remembered, and passed on as it is.
Ioctl(f, fd, arg) ==
    /\ Calls(f, "ioctl") /\ Usable(fd)
    /\ m_datas' = IF Known(fd) THEN [m_datas EXCEPT ![fd] = SetUserNonblock(@, arg)]
                  ELSE m_datas
    /\ SetFlag(fd, arg)
    /\ UNCHANGED <<gen, open, ready, watched, iom, pc, loc, crash>>

\* setsockopt(SO_RCVTIMEO or SO_SNDTIMEO).
SetSockOpt(f, fd, type) ==
    /\ Calls(f, "setsockopt") /\ Usable(fd)
    /\ m_datas' = IF Exists(m_datas[fd])
                  THEN [m_datas EXCEPT ![fd] = SetTimeout(@, type)] ELSE m_datas
    /\ UNCHANGED <<kernel, iom, pc, loc, crash>>

\* The fiber's function ends.
End(f) ==
    /\ pc[f] = "user"
    /\ Goto(f, "done")
    /\ UNCHANGED <<m_datas, kernel, iom, loc, calls, crash>>

-----------------------------------------------------------------------------
(* The specification *)

\* Data, space or a connection arrives.
Arrive(fd, e) ==
    /\ fd \in open /\ e \notin ready[fd]
    /\ ready' = [ready EXCEPT ![fd] = @ \cup {e}]
    /\ UNCHANGED <<m_datas, gen, open, nonblock, watched, iom, fibers, crash>>

UserStep(f) ==
    \/ \E fd \in Fds :
        \/ \E op \in IoOps : CallThrough(f, op, fd) \/ CallWaiting(f, op, fd)
        \/ Socket(f, fd) \/ Close(f, fd) \/ InitCtx(f, fd)
        \/ \E arg \in BOOLEAN : Fcntl(f, fd, arg)
        \/ \E arg \in NonblockArgs : Ioctl(f, fd, arg)
        \/ \E type \in {"RCV", "SND"} : SetSockOpt(f, fd, type)
    \/ Sleep(f)

FiberStep(f) ==
    \/ LibcReturns(f)
    \/ Try(f) \/ Arm(f) \/ AddEvent(f) \/ Resume(f)
    \/ Lookup(f) \/ Create(f) \/ CancelAll(f) \/ Del(f) \/ CloseF(f)
    \/ End(f)

IdleStep == \E X \in SUBSET timers, E \in SUBSET Reportable : Poll(X, E)

Step ==
    /\ ~crash
    /\ \/ \E f \in Fibers : UserStep(f) \/ FiberStep(f)
       \/ TakeFiber \/ TakeCb \/ IdleStep
       \/ \E tm \in inHand : RunCb(tm)
       \/ \E fd \in Fds, e \in Events : Arrive(fd, e)

\* The process is over, or every fiber has ended.
Over == (crash \/ \A f \in Fibers : pc[f] = "done") /\ UNCHANGED vars

Next == Step \/ Over

Spec == Init /\ [][Next]_vars

\* A pass of idle() that finds a timer of f expired, or an event of fd.
PollsTimer(f) == \E X \in SUBSET timers, E \in SUBSET Reportable :
                    (\E tm \in X : tm.fiber = f) /\ Poll(X, E)
PollsEvent(fd, e) == \E X \in SUBSET timers, E \in SUBSET Reportable :
                    <<fd, e>> \in E /\ Poll(X, E)

\* Workers keep working.  Passes of idle() may be far apart, but each lists
\* every timer that is due and is told of every event: one that is there in
\* infinitely many passes is served.
FairSpec ==
    /\ Spec
    /\ \A f \in Fibers :
        WF_vars(~crash /\ FiberStep(f)) /\ SF_vars(~crash /\ PollsTimer(f))
    /\ WF_vars(~crash /\ (TakeFiber \/ TakeCb))
    /\ WF_vars(~crash /\ \E tm \in inHand : RunCb(tm))
    /\ \A fd \in Fds, e \in Events : SF_vars(~crash /\ PollsEvent(fd, e))

-----------------------------------------------------------------------------
(* Properties *)

\* add_event's assertion holds: nobody is registered for the event yet.
NoAssertionFails == ~crash

\* Places from which fiber f can be resumed.
Listed(f) == {i \in DOMAIN m_fibers : m_fibers[i] = FiberTask(f)}
Registered(f) == {x \in Fds \X Events : m_events[x[1]][x[2]] = f}
SleepCbs(f) ==
    {tm \in timers \cup inHand \cup {m_fibers[i].timer :
            i \in {k \in DOMAIN m_fibers : m_fibers[k].kind = "cb"}} :
        tm.sleeps /\ tm.fiber = f}

\* A fiber that holds in a hooked call is resumed by exactly one party, although
\* the event, the timer and close all try to: two would run it twice, none
\* would leave it for ever.
WokenOnce ==
    \A f \in Fibers :
        Cardinality(Listed(f)) + Cardinality(Registered(f)) + Cardinality(SleepCbs(f))
            = IF pc[f] \in {"new", "wait", "sleep"} THEN 1 ELSE 0

\* close reaches everybody who waits: a fiber that is registered holds in a
\* call that waits for this event of this descriptor, which is open and watched
\* by epoll.
StaysWatched ==
    \A fd \in Fds, e \in Events :
        LET f == m_events[fd][e]
        IN  f # NoFiber => /\ fd \in open /\ e \in watched[fd]
                           /\ pc[f] = "wait" /\ loc[f].fd = fd /\ Registers(loc[f].op) = e

\* A call that reports ETIMEDOUT was marked by the timer of the wait it comes
\* from, and not by the late callback of an earlier wait of the same call.
TimeoutIsReal ==
    \A f \in Fibers :
        pc[f] = "back" /\ TimedOut(f) => loc[f].cancelled = loc[f].wait

\* A new descriptor never inherits the context (flags, timeouts) of the one
\* that had its number before: close deletes it before the number is free.
FreshContext ==
    \A fd \in open :
        Exists(m_datas[fd]) /\ (\A f \in Fibers : ~(Uses(f, fd) /\ loc[f].op = "socket"))
            => m_datas[fd].gen = gen[fd]

\* A call that may hold never blocks its worker in libc: whatever the user
\* asked for with fcntl, the descriptor is non-blocking.
NeverBlocksWorker ==
    \A f \in Fibers :
        pc[f] = "try" /\ loc[f].gen = gen[loc[f].fd] /\ loc[f].fd \in open
            => loc[f].fd \in nonblock

\* A worker is blocked in libc: in a call that is not managed (no context, or
\* FdCtx::init was never called for it), or on a descriptor that was opened
\* again while its fiber waited for the old one.
Stuck == \E f \in Fibers : pc[f] \in {"libc", "try"} /\ Blocks(loc[f].op, loc[f].fd)

\* The worker never comes back: it is blocked for ever, or the process is over
\* (see NoAssertionFails).
NoMoreWork == crash \/ []Stuck

\* Waiting with a timeout ends, with or without the event, while the worker
\* works.
TimedWaitEnds ==
    \A f \in Fibers : (pc[f] = "wait" /\ loc[f].timed) ~> (pc[f] # "wait" \/ NoMoreWork)

\* The fiber holds and what it waits for is there.
CouldGoOn(f) == /\ pc[f] = "wait" /\ loc[f].fd \in open
                /\ Needs(loc[f].op) \in ready[loc[f].fd]

\* A fiber that waits to read or connect is resumed when it can go on, while the
\* worker works and unless another call takes what there was: one that waited on
\* the descriptor that had the number before tries again on the new one.
ReadyResumes ==
    \A f \in Fibers :
        (CouldGoOn(f) /\ loc[f].op # "write") ~> (~CouldGoOn(f) \/ NoMoreWork)

\* The same for a fiber that waits to write.
WriteResumes ==
    \A f \in Fibers :
        (CouldGoOn(f) /\ loc[f].op = "write") ~> (~CouldGoOn(f) \/ NoMoreWork)
=============================================================================
