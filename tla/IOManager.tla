----------------------------- MODULE IOManager -----------------------------
(***************************************************************************)
(* The event side of sylar::IOManager (src/sylar/iomanager.h and .cc):     *)
(* one FdContext per descriptor, registered in an epoll instance, whose    *)
(* READ and WRITE events each carry the callback or fiber to schedule when *)
(* the event happens.  Threads of the pool run functions that call         *)
(* add_event, del_event, cancel_event and cancel_all, or poll in idle().   *)
(*                                                                         *)
(* add_event and idle() hold the FdContext's mutex: each is one action.    *)
(* del_event, cancel_event and cancel_all write                            *)
(*     FdContext::MutexType lock2(fd_ctx->m_mutex);                        *)
(* which copies the mutex instead of locking it, so they run in steps that *)
(* interleave with everything else.                                        *)
(***************************************************************************)
EXTENDS Integers, FiniteSets, FiniteSetsExt

CONSTANTS
    Threads,    \* threads of the pool
    Fds,        \* descriptors
    Events,     \* the events the application uses, among READ and WRITE
    AppOps,     \* which of "del", "cancel", "all" are called
    Errors,     \* whether descriptors can report EPOLLERR or EPOLLHUP
    MaxAdds     \* bound on the calls of add_event

ASSUME IOAssumption ==
    /\ Threads # {} /\ Fds # {}
    /\ Events \subseteq {"READ", "WRITE"}
    /\ AppOps \subseteq {"del", "cancel", "all"}
    /\ Errors \in BOOLEAN
    /\ MaxAdds \in Nat

VARIABLES
    m_events,   \* FdContext::m_events
    ctx,        \* which members of the EventContext are set
    m_pending_event_count,
    \* the kernel (external)
    interest,   \* events the fd is registered for in epoll, or Absent
    ready,      \* what the descriptor is ready for, "ERR" included
    edge,       \* descriptors on epoll's ready list (EPOLLET)
    \* threads
    pc,         \* where the thread is
    op,         \* locals of the unlocked operation it executes
    events,     \* results of epoll_wait it has still to handle
    \* who waits for an event: one function per descriptor and event
    waiter,     \* "idle", "waiting" (registered) or "woken" (scheduled)
    adds, crash

kernel == <<interest, ready, edge>>
vars == <<m_events, ctx, m_pending_event_count, kernel, pc, op, events, waiter,
          adds, crash>>

Absent == {"absent"}
Parts == {"scheduler", "cb"}
NoOp == [kind |-> "none", fd |-> CHOOSE f \in Fds : TRUE, todo |-> {}, new |-> {}]

-----------------------------------------------------------------------------
\* The type invariant.
TypeOK ==
    /\ m_events \in [Fds -> SUBSET Events]
    /\ ctx \in [Fds -> [Events -> SUBSET Parts]]
    /\ m_pending_event_count \in Nat
    /\ interest \in [Fds -> (SUBSET Events) \cup {Absent}]
    /\ ready \in [Fds -> SUBSET (Events \cup {"ERR"})]
    /\ edge \subseteq Fds
    /\ pc \in [Threads -> {"free", "poll", "ctl", "apply", "trigger", "clear"}]
    /\ op \in [Threads -> [kind : {"none", "del", "cancel", "all"}, fd : Fds,
                           todo : SUBSET Events, new : SUBSET Events]]
    /\ events \in [Threads -> SUBSET [fd : Fds, events : SUBSET (Events \cup {"ERR"})]]
    /\ waiter \in [Fds -> [Events -> {"idle", "waiting", "woken"}]]
    /\ adds \in 0..MaxAdds
    /\ crash \in {"none", "add", "context", "trigger", "null", "twice", "left"}

Init ==
    /\ m_events = [fd \in Fds |-> {}]
    /\ ctx = [fd \in Fds |-> [e \in Events |-> {}]]
    /\ m_pending_event_count = 0
    /\ interest = [fd \in Fds |-> Absent]
    /\ ready = [fd \in Fds |-> {}]
    /\ edge = {}
    /\ pc = [t \in Threads |-> "free"]
    /\ op = [t \in Threads |-> NoOp]
    /\ events = [t \in Threads |-> {}]
    /\ waiter = [fd \in Fds |-> [e \in Events |-> "idle"]]
    /\ adds = 0
    /\ crash = "none"

Goto(t, l) == pc' = [pc EXCEPT ![t] = l]

-----------------------------------------------------------------------------
(* The kernel *)

\* epoll_ctl with MOD or DEL (a registration with no event left is deleted)
\* fails on a descriptor that is not registered, ADD on one that is.
CtlFails(fd, add) == (interest[fd] = Absent) # add

\* A registration that is added or modified is looked at again by the next
\* epoll_wait, also in edge-triggered mode.
Ctl(fd, set) ==
    /\ interest' = [interest EXCEPT ![fd] = IF set = {} THEN Absent ELSE set]
    /\ edge' = IF set = {} THEN edge \ {fd} ELSE edge \cup {fd}
    /\ UNCHANGED ready

\* What epoll_wait would report for a registered descriptor.
Report(fd) == ready[fd] \cap (interest[fd] \cup {"ERR"})

Reportable == {fd \in edge : interest[fd] # Absent /\ Report(fd) # {}}

\* Data or space arrives, or the connection breaks.
Arrive(fd, e) ==
    /\ e \notin ready[fd]
    /\ ready' = [ready EXCEPT ![fd] = @ \cup {e}]
    /\ edge' = edge \cup {fd}
    /\ UNCHANGED <<m_events, ctx, m_pending_event_count, interest, pc, op,
                   events, waiter, adds, crash>>

-----------------------------------------------------------------------------
(* FdContext::triggerEvent on the events of S, one after the other *)

\* The first assertion or null pointer triggering S runs into.  A function
\* that is scheduled while it is already scheduled runs twice.
TriggerFault(fd, S) ==
    IF ~(S \subseteq m_events[fd]) THEN "trigger"
    ELSE IF \E e \in S : "scheduler" \notin ctx[fd][e] THEN "null"
    ELSE IF \E e \in S : "cb" \notin ctx[fd][e] THEN "null"
    ELSE IF \E e \in S : waiter[fd][e] # "waiting" THEN "twice"
    ELSE "none"

\* Mutant: nothing is scheduled.
WokenNobody(fd, S) == waiter

\* schedule(&event_ctx.cb) lists the function of every event of S.
Woken(fd, S) ==
    [waiter EXCEPT ![fd] = [e \in Events |-> IF e \in S THEN "woken" ELSE @[e]]]

\* Members of the contexts of S are cleared: the callback is swapped out by
\* schedule, the pointer to the scheduler set to null.
CtxWithout(fd, S, parts) ==
    [ctx EXCEPT ![fd] = [e \in Events |-> IF e \in S THEN @[e] \ parts ELSE @[e]]]

-----------------------------------------------------------------------------
(* Operations of the functions that run on the pool *)

\* Mutant: the new event is missing in the registration.
InterestForgetsNew(fd, e) == m_events[fd]

\* What add_event registers with epoll.
NewInterest(fd, e) == m_events[fd] \cup {e}

\* Mutant: add_event does not count.
CountUnchanged == m_pending_event_count

\* ++m_pending_event_count.
CountUp == m_pending_event_count + 1

\* add_event(fd, event, cb), under the context's mutex.
AddEvent(t, fd, e) ==
    /\ pc[t] = "free" /\ waiter[fd][e] = "idle" /\ adds < MaxAdds
    /\ adds' = adds + 1
    /\ LET refused == CtlFails(fd, m_events[fd] = {})
           fault == IF e \in m_events[fd] THEN "add"
                    ELSE IF ~refused /\ ctx[fd][e] # {} THEN "context"
                    ELSE "none"
       IN  /\ crash' = fault
           /\ IF fault # "none" \/ refused
              THEN UNCHANGED <<m_events, ctx, m_pending_event_count, kernel, waiter>>
              ELSE /\ Ctl(fd, NewInterest(fd, e))
                   /\ m_pending_event_count' = CountUp
                   /\ m_events' = [m_events EXCEPT ![fd] = @ \cup {e}]
                   /\ ctx' = [ctx EXCEPT ![fd][e] = Parts]
                   /\ waiter' = [waiter EXCEPT ![fd][e] = "waiting"]
    /\ UNCHANGED <<pc, op, events>>

\* A scheduled function runs: it does its I/O, which uses up the readiness.
RunWaiter(t, fd, e) ==
    /\ pc[t] = "free" /\ waiter[fd][e] = "woken"
    /\ waiter' = [waiter EXCEPT ![fd][e] = "idle"]
    /\ ready' = [ready EXCEPT ![fd] = @ \ {e}]
    /\ UNCHANGED <<m_events, ctx, m_pending_event_count, interest, edge, pc, op,
                   events, adds, crash>>

\* del_event, cancel_event and cancel_all up to their test of m_events; the
\* first two take one event, cancel_all takes them all.
StartOp(t, kind, fd, S) ==
    /\ pc[t] = "free" /\ kind \in AppOps
    /\ IF kind = "all" THEN S = Events ELSE Cardinality(S) = 1
    /\ S \cap m_events[fd] # {}
    /\ op' = [op EXCEPT ![t] = [kind |-> kind, fd |-> fd, todo |-> S,
                                new |-> m_events[fd] \ S]]
    /\ Goto(t, "ctl")
    /\ UNCHANGED <<m_events, ctx, m_pending_event_count, kernel, events, waiter,
                   adds, crash>>

\* Their epoll_ctl, computed from the m_events read before; they give up when
\* it fails.
OpCtl(t) ==
    /\ pc[t] = "ctl"
    /\ IF CtlFails(op[t].fd, FALSE)
       THEN Goto(t, "free") /\ UNCHANGED kernel
       ELSE /\ Ctl(op[t].fd, op[t].new)
            /\ Goto(t, IF op[t].kind = "del" THEN "apply" ELSE "trigger")
    /\ UNCHANGED <<m_events, ctx, m_pending_event_count, op, events, waiter,
                   adds, crash>>

\* The rest of del_event: the registration is dropped without being scheduled.
DelApply(t) ==
    /\ pc[t] = "apply"
    /\ LET fd == op[t].fd
       IN  /\ m_pending_event_count' = m_pending_event_count - 1
           /\ m_events' = [m_events EXCEPT ![fd] = op[t].new]
           /\ ctx' = CtxWithout(fd, op[t].todo, Parts)
           /\ waiter' = [waiter EXCEPT ![fd] = [e \in Events |->
                IF e \in op[t].todo /\ @[e] = "waiting" THEN "idle" ELSE @[e]]]
    /\ Goto(t, "free")
    /\ UNCHANGED <<kernel, op, events, adds, crash>>

\* The event triggerEvent is called for next; cancel_all looks at m_events
\* again and skips what is not there, READ first.
NextTodo(t) ==
    LET S == IF op[t].kind = "all" THEN op[t].todo \cap m_events[op[t].fd]
             ELSE op[t].todo
    IN  IF "READ" \in S THEN {"READ"} ELSE S

\* triggerEvent up to and including schedule; cancel_all ends with an
\* assertion that no event is left.
OpTrigger(t) ==
    /\ pc[t] = "trigger"
    /\ LET fd == op[t].fd
           S == NextTodo(t)
           fault == IF S = {} /\ m_events[fd] # {} THEN "left"
                    ELSE TriggerFault(fd, S)
       IN  /\ crash' = fault
           /\ IF fault # "none" \/ S = {}
              THEN /\ Goto(t, "free")
                   /\ UNCHANGED <<m_events, ctx, waiter, op>>
              ELSE /\ m_events' = [m_events EXCEPT ![fd] = @ \ S]
                   /\ ctx' = CtxWithout(fd, S, {"cb"})
                   /\ waiter' = Woken(fd, S)
                   /\ op' = [op EXCEPT ![t].todo = S]
                   /\ Goto(t, "clear")
    /\ UNCHANGED <<m_pending_event_count, kernel, events, adds>>

\* The end of triggerEvent (the scheduler pointer is cleared after schedule)
\* and the decrement behind it.
OpClear(t) ==
    /\ pc[t] = "clear"
    /\ ctx' = CtxWithout(op[t].fd, op[t].todo, {"scheduler"})
    /\ m_pending_event_count' = m_pending_event_count - 1
    /\ IF op[t].kind = "all"
       THEN /\ op' = [op EXCEPT ![t].todo =
                        IF @ = {"READ"} THEN Events \ {"READ"} ELSE {}]
            /\ Goto(t, "trigger")
       ELSE Goto(t, "free") /\ UNCHANGED op
    /\ UNCHANGED <<m_events, kernel, events, waiter, adds, crash>>

-----------------------------------------------------------------------------
(* IOManager::idle *)

\* epoll_wait returns with descriptors to handle.
EpollWait(t) ==
    /\ pc[t] = "free" /\ Reportable # {}
    /\ events' = [events EXCEPT ![t] =
            {[fd |-> fd, events |-> Report(fd)] : fd \in Reportable}]
    /\ edge' = edge \ Reportable
    /\ Goto(t, "poll")
    /\ UNCHANGED <<m_events, ctx, m_pending_event_count, interest, ready, op,
                   waiter, adds, crash>>

\* One result, under the context's mutex: an error stands for every registered
\* event; what was reported is triggered (whether or not it is registered
\* still) if any of it is registered.
HandleEvent(t) ==
    /\ pc[t] = "poll"
    /\ \E r \in events[t] :
        LET fd == r.fd
            real == (r.events \cap Events)
                      \cup (IF "ERR" \in r.events THEN m_events[fd] ELSE {})
            skip == m_events[fd] \cap real = {} \/ CtlFails(fd, FALSE)
        IN  /\ events' = [events EXCEPT ![t] = @ \ {r}]
            /\ Goto(t, IF events[t] = {r} THEN "free" ELSE "poll")
            /\ IF skip
               THEN UNCHANGED <<m_events, ctx, m_pending_event_count, kernel,
                                waiter, crash>>
               ELSE /\ Ctl(fd, m_events[fd] \ real)
                    /\ crash' = TriggerFault(fd, real)
                    /\ m_events' = [m_events EXCEPT ![fd] = @ \ real]
                    /\ ctx' = CtxWithout(fd, real, Parts)
                    /\ waiter' = Woken(fd, real)
                    /\ m_pending_event_count' =
                            m_pending_event_count - Cardinality(real)
    /\ UNCHANGED <<op, adds>>

-----------------------------------------------------------------------------
AppStep(t) ==
    \E fd \in Fds :
        \/ \E e \in Events : AddEvent(t, fd, e) \/ RunWaiter(t, fd, e)
        \/ \E kind \in AppOps, S \in SUBSET Events : StartOp(t, kind, fd, S)

OpStep(t) == OpCtl(t) \/ DelApply(t) \/ OpTrigger(t) \/ OpClear(t)

IdleStep(t) == EpollWait(t) \/ HandleEvent(t)

KernelStep ==
    \E fd \in Fds, e \in Events \cup (IF Errors THEN {"ERR"} ELSE {}) : Arrive(fd, e)

Step ==
    /\ crash = "none"
    /\ KernelStep \/ \E t \in Threads : AppStep(t) \/ OpStep(t) \/ IdleStep(t)

\* The process is over, or nothing is registered, running or arriving any more.
Over == (crash # "none" \/ adds = MaxAdds) /\ UNCHANGED vars

Next == Step \/ Over

Spec == Init /\ [][Next]_vars

\* A thread finishes the operation it is in, and a thread that has nothing to
\* run polls and runs what was scheduled.
FairSpec ==
    /\ Spec
    /\ \A t \in Threads :
        /\ WF_vars(crash = "none" /\ (OpStep(t) \/ IdleStep(t)))
        /\ \A fd \in Fds, e \in Events :
                WF_vars(crash = "none" /\ RunWaiter(t, fd, e))

-----------------------------------------------------------------------------
(* Properties *)

\* None of the assertions of add_event, triggerEvent and cancel_all fails, no
\* null scheduler is used and no function is scheduled twice.
NoAssertionFails == crash = "none"

\* No thread is inside an operation that does not lock.
Quiet == \A t \in Threads : pc[t] \in {"free", "poll"}

Registered == {p \in Fds \X Events : p[2] \in m_events[p[1]]}

\* m_pending_event_count, which stopping() waits for, is the number of
\* registered events.
PendingCountExact ==
    Quiet => m_pending_event_count = Cardinality(Registered)

\* FdContext, epoll and the waiting functions agree: an event is registered
\* if and only if its context is filled, epoll watches it and its function
\* waits; otherwise the function would never be woken, or twice.
Consistent ==
    Quiet =>
        \A fd \in Fds :
            /\ interest[fd] = (IF m_events[fd] = {} THEN Absent ELSE m_events[fd])
            /\ \A e \in Events :
                /\ e \in m_events[fd] <=> waiter[fd][e] = "waiting"
                /\ ctx[fd][e] = IF e \in m_events[fd] THEN Parts ELSE {}

\* No edge is lost: as long as a registered event is ready, the descriptor is
\* reported by the next epoll_wait or in the results of a thread.
NoLostEdge ==
    Quiet =>
        \A fd \in Fds : m_events[fd] \cap ready[fd] # {} =>
            \/ fd \in Reportable
            \/ \E t \in Threads : \E r \in events[t] : r.fd = fd

\* A function that waits for an event that is ready is woken (or its
\* registration is withdrawn).
ReadyIsDelivered ==
    \A fd \in Fds, e \in Events :
        (waiter[fd][e] = "waiting" /\ e \in ready[fd]) ~> waiter[fd][e] # "waiting"
=============================================================================
