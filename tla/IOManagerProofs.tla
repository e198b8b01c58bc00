-------------------------- MODULE IOManagerProofs --------------------------
(***************************************************************************)
(* Theorems about the events of an IOManager with one thread, for every    *)
(* set of descriptors, every use of add_event, del_event, cancel_event and *)
(* cancel_all and every arrival of data and errors.  One thread is the     *)
(* default of the constructor, and all that the code supports: the last    *)
(* three operations copy the mutex of the descriptor instead of locking it *)
(* and their steps interleave with those of a second thread.               *)
(***************************************************************************)
EXTENDS IOManager, TLAPS, FiniteSetTheorems

OneThread == \A t, u \in Threads : t = u

\* Thread t is behind the epoll_ctl of an operation on fd.
Committed(t, fd) == pc[t] \in {"apply", "trigger", "clear"} /\ op[t].fd = fd

\* What epoll is to watch.
Target(t, fd) == IF Committed(t, fd) THEN op[t].new ELSE m_events[fd]

\* A context in the middle of triggerEvent.
Clearing(t, fd, e) == pc[t] = "clear" /\ op[t].fd = fd /\ e \in op[t].todo

\* Epoll watches what is registered, or is about to be; no edge is lost.
Watched(t, fd) ==
    /\ interest[fd] = IF Target(t, fd) = {} THEN Absent ELSE Target(t, fd)
    /\ Target(t, fd) \cap ready[fd] # {} =>
         fd \in edge \/ \E r \in events[t] : r.fd = fd

\* Contexts are filled, and functions wait, for what is registered.
Filled(t, fd, e) ==
    /\ e \in m_events[fd] <=> waiter[fd][e] = "waiting"
    /\ ctx[fd][e] = IF e \in m_events[fd] THEN Parts
                    ELSE IF Clearing(t, fd, e) THEN {"scheduler"} ELSE {}

\* The locals of the operation in progress agree with m_events.
OneLeft(t, m) ==
    LET o == op[t] IN
    /\ pc[t] = "ctl" => o.kind # "none"
    /\ pc[t] = "apply" => o.kind = "del"
    /\ pc[t] \in {"trigger", "clear"} => o.kind \in {"cancel", "all"}
    /\ pc[t] \in {"ctl", "apply", "trigger"} /\ o.kind # "all" =>
         \E e \in m : o.todo = {e} /\ o.new = m \ {e}
    /\ pc[t] = "ctl" /\ o.kind = "all" => o.todo = Events /\ m # {}
    /\ pc[t] = "trigger" /\ o.kind = "all" => m \subseteq o.todo
    /\ pc[t] = "clear" => \E e \in Events : /\ o.todo = {e} /\ e \notin m
                                            /\ o.kind = "all" => e = "READ" \/ m = {}
    /\ pc[t] = "clear" /\ o.kind # "all" => o.new = m
    /\ pc[t] \in {"ctl", "trigger", "clear"} /\ o.kind = "all" => o.new = {}

\* Nobody intervenes between epoll_wait and the handling of its results.
Fresh(t) ==
    /\ pc[t] # "poll" => events[t] = {}
    /\ \A r \in events[t] :
        /\ r.events # {} /\ m_events[r.fd] # {}
        /\ r.events \cap Events \subseteq m_events[r.fd]
    /\ \A r, s \in events[t] : r.fd = s.fd => r = s

\* Every registered event is counted, and one that is being triggered.
Counted(t) ==
    /\ IsFiniteSet(Registered)
    /\ m_pending_event_count = Cardinality(Registered) + (IF pc[t] = "clear" THEN 1 ELSE 0)

\* The inductive invariant.
InvOf(t) ==
    /\ crash = "none"
    /\ \A fd \in Fds : Watched(t, fd)
    /\ \A fd \in Fds, e \in Events : Filled(t, fd, e)
    /\ OneLeft(t, m_events[op[t].fd])
    /\ Fresh(t) /\ Counted(t)

Inv == TypeOK /\ \A t \in Threads : InvOf(t)

-----------------------------------------------------------------------------
(* The operators the actions are made of *)

LEMMA AbsentApart == \A S \in SUBSET Events : S # Absent
  BY IOAssumption DEF Absent

\* epoll_ctl on fd leaves the other descriptors alone.
LEMMA CtlEffect ==
    ASSUME TypeOK, NEW fd \in Fds, NEW set \in SUBSET Events, Ctl(fd, set)
    PROVE  /\ interest' \in [Fds -> (SUBSET Events) \cup {Absent}]
           /\ edge' \subseteq Fds
           /\ interest'[fd] = IF set = {} THEN Absent ELSE set
           /\ set # {} => fd \in edge'
           /\ \A f \in Fds \ {fd} : interest'[f] = interest[f] /\ (f \in edge => f \in edge')
           /\ ready' = ready
  BY DEF TypeOK, Ctl

LEMMA CtxEffect ==
    ASSUME TypeOK, NEW fd \in Fds, NEW S \in SUBSET Events, NEW parts \in SUBSET Parts,
           ctx' = CtxWithout(fd, S, parts)
    PROVE  /\ ctx' \in [Fds -> [Events -> SUBSET Parts]]
           /\ \A e \in Events : ctx'[fd][e] = IF e \in S THEN ctx[fd][e] \ parts ELSE ctx[fd][e]
           /\ \A f \in Fds \ {fd} : ctx'[f] = ctx[f]
<1>1. ctx \in [Fds -> [Events -> SUBSET Parts]]
  BY DEF TypeOK
<1>2. PICK g : g = [e \in Events |-> IF e \in S THEN ctx[fd][e] \ parts ELSE ctx[fd][e]]
  OBVIOUS
<1>3. g \in [Events -> SUBSET Parts]
  BY <1>1, <1>2
<1>4. ctx' = [ctx EXCEPT ![fd] = g]
  BY <1>1, <1>2 DEF CtxWithout
<1>. QED
  BY <1>1, <1>2, <1>3, <1>4

LEMMA WokenEffect ==
    ASSUME TypeOK, NEW fd \in Fds, NEW S \in SUBSET Events, waiter' = Woken(fd, S)
    PROVE  /\ waiter' \in [Fds -> [Events -> {"idle", "waiting", "woken"}]]
           /\ \A e \in Events : waiter'[fd][e] = IF e \in S THEN "woken" ELSE waiter[fd][e]
           /\ \A f \in Fds \ {fd} : waiter'[f] = waiter[f]
<1>1. waiter \in [Fds -> [Events -> {"idle", "waiting", "woken"}]]
  BY DEF TypeOK
<1>2. PICK g : g = [e \in Events |-> IF e \in S THEN "woken" ELSE waiter[fd][e]]
  OBVIOUS
<1>3. g \in [Events -> {"idle", "waiting", "woken"}]
  BY <1>1, <1>2
<1>4. waiter' = [waiter EXCEPT ![fd] = g]
  BY <1>1, <1>2 DEF Woken
<1>. QED
  BY <1>1, <1>2, <1>3, <1>4

\* Registering one more event adds one to the registered ones.
LEMMA RegisterOne ==
    ASSUME TypeOK, IsFiniteSet(Registered), NEW fd \in Fds, NEW e \in Events,
           e \notin m_events[fd], m_events' = [m_events EXCEPT ![fd] = @ \cup {e}]
    PROVE  /\ IsFiniteSet(Registered') /\ Cardinality(Registered) \in Nat
           /\ Cardinality(Registered') = Cardinality(Registered) + 1
<1>1. Registered' = Registered \cup {<<fd, e>>} /\ <<fd, e>> \notin Registered
  BY DEF TypeOK, Registered
<1>. QED
  BY <1>1, FS_AddElement, FS_CardinalityType

\* Withdrawing the events of S subtracts as many.
LEMMA Withdraw ==
    ASSUME TypeOK, IsFiniteSet(Registered), NEW fd \in Fds, NEW S \in SUBSET m_events[fd],
           m_events' = [m_events EXCEPT ![fd] = m_events[fd] \ S]
    PROVE  /\ IsFiniteSet(Registered') /\ IsFiniteSet(S)
           /\ Cardinality(Registered) \in Nat /\ Cardinality(S) \in Nat
           /\ Cardinality(Registered') = Cardinality(Registered) - Cardinality(S)
<1>1. /\ Registered' = Registered \ ({fd} \X S)
      /\ Registered \cap ({fd} \X S) = {fd} \X S
  BY DEF TypeOK, Registered
<1>2. IsFiniteSet(S)
  <2>1. IsFiniteSet({"READ", "WRITE"})
    <3>1. {"READ", "WRITE"} = {"READ"} \cup {"WRITE"} /\ IsFiniteSet({"READ"})
      BY FS_Singleton
    <3>. QED
      BY <3>1, FS_AddElement
  <2>2. S \in SUBSET {"READ", "WRITE"}
    BY IOAssumption DEF TypeOK
  <2>. QED
    BY <2>1, <2>2, FS_Subset
<1>3. Cardinality({fd} \X S) = Cardinality(S)
  <2>1. IsFiniteSet({fd}) /\ Cardinality({fd}) = 1
    BY FS_Singleton
  <2>2. Cardinality({fd} \X S) = 1 * Cardinality(S)
    BY <1>2, <2>1, FS_Product
  <2>. QED
    BY <1>2, <2>2, FS_CardinalityType
<1>4. /\ IsFiniteSet(Registered \ ({fd} \X S))
      /\ Cardinality(Registered \ ({fd} \X S))
            = Cardinality(Registered) - Cardinality(Registered \cap ({fd} \X S))
  BY FS_Difference
<1>. QED
  BY <1>1, <1>2, <1>3, <1>4, FS_CardinalityType

\* Nothing that is triggered runs into an assertion.
LEMMA TriggerSucceeds ==
    ASSUME NEW t, NEW fd \in Fds, NEW S \in SUBSET m_events[fd], TypeOK,
           \A e \in Events : Filled(t, fd, e)
    PROVE  TriggerFault(fd, S) = "none"
<1>1. \A e \in S : e \in Events /\ waiter[fd][e] = "waiting" /\ ctx[fd][e] = Parts
  BY DEF TypeOK, Filled
<1>. QED
  BY <1>1 DEF TriggerFault, Parts

-----------------------------------------------------------------------------
(* Every action keeps the invariant *)

\* What holds before a step of the only thread.
Before(t) == Threads = {t} /\ TypeOK /\ InvOf(t)

LEMMA ArriveKeeps ==
    ASSUME NEW t, Before(t), NEW fd \in Fds, NEW e \in Events \cup {"ERR"}, Arrive(fd, e)
    PROVE  TypeOK' /\ InvOf(t)'
<1>1. /\ ready' = [ready EXCEPT ![fd] = @ \cup {e}] /\ edge' = edge \cup {fd}
      /\ UNCHANGED <<m_events, ctx, m_pending_event_count, interest, pc, op,
                     events, waiter, adds, crash>>
  BY DEF Arrive
<1>2. TypeOK'
  <2>1. ready' \in [Fds -> SUBSET (Events \cup {"ERR"})] /\ edge' \subseteq Fds
    BY <1>1 DEF Before, TypeOK
  <2>. QED
    BY <1>1, <2>1 DEF Before, TypeOK
<1>3. \A f \in Fds : Target(t, f)' = Target(t, f)
  BY <1>1 DEF Target, Committed
<1>4. \A f \in Fds : Watched(t, f)'
  BY <1>1, <1>3 DEF Before, InvOf, Watched, TypeOK
<1>5. \A f \in Fds, x \in Events : Filled(t, f, x)'
  BY <1>1 DEF Before, InvOf, Filled, Clearing
<1>6. OneLeft(t, m_events[op[t].fd])'
  BY <1>1 DEF Before, InvOf, OneLeft
<1>7. Fresh(t)' /\ Counted(t)'
  BY <1>1 DEF Before, InvOf, Fresh, Counted, Registered
<1>. QED
  BY <1>1, <1>2, <1>4, <1>5, <1>6, <1>7 DEF Before, InvOf

LEMMA AddKeeps ==
    ASSUME NEW t, Before(t), NEW fd \in Fds, NEW e \in Events, AddEvent(t, fd, e)
    PROVE  TypeOK' /\ InvOf(t)'
<1>. USE IOAssumption
<1>0. /\ pc[t] = "free" /\ waiter[fd][e] = "idle" /\ events[t] = {}
      /\ UNCHANGED <<pc, op, events>>
      /\ \A f \in Fds : Target(t, f) = m_events[f] /\ ~Committed(t, f)
  BY DEF AddEvent, Before, InvOf, Fresh, Target, Committed
<1>1. e \notin m_events[fd] /\ ctx[fd][e] = {} /\ ~CtlFails(fd, m_events[fd] = {})
  <2>1. e \notin m_events[fd] /\ ctx[fd][e] = {}
    BY <1>0 DEF Before, InvOf, Filled, Clearing
  <2>2. interest[fd] = IF m_events[fd] = {} THEN Absent ELSE m_events[fd]
    BY <1>0 DEF Before, InvOf, Watched
  <2>3. interest[fd] = Absent <=> m_events[fd] = {}
    BY <2>2, AbsentApart DEF Before, TypeOK
  <2>. QED
    BY <2>1, <2>3 DEF CtlFails
<1>2. /\ Ctl(fd, m_events[fd] \cup {e}) /\ m_pending_event_count' = m_pending_event_count + 1
      /\ m_events' = [m_events EXCEPT ![fd] = @ \cup {e}]
      /\ ctx' = [ctx EXCEPT ![fd][e] = Parts]
      /\ waiter' = [waiter EXCEPT ![fd][e] = "waiting"]
      /\ adds' = adds + 1 /\ adds < MaxAdds /\ crash' = "none"
  BY <1>1 DEF AddEvent, NewInterest, CountUp
<1>3. m_events[fd] \cup {e} \in SUBSET Events
  BY DEF Before, TypeOK
<1>4. /\ interest' \in [Fds -> (SUBSET Events) \cup {Absent}]
      /\ edge' \subseteq Fds /\ interest'[fd] = m_events[fd] \cup {e} /\ fd \in edge'
      /\ \A f \in Fds \ {fd} : interest'[f] = interest[f] /\ (f \in edge => f \in edge')
      /\ ready' = ready
  BY <1>2, <1>3, CtlEffect DEF Before
<1>5. /\ m_events' \in [Fds -> SUBSET Events] /\ m_events'[fd] = m_events[fd] \cup {e}
      /\ \A f \in Fds \ {fd} : m_events'[f] = m_events[f]
  BY <1>2, <1>3 DEF Before, TypeOK
<1>6. /\ ctx' \in [Fds -> [Events -> SUBSET Parts]] /\ ctx'[fd][e] = Parts
      /\ \A f \in Fds, x \in Events : f # fd \/ x # e => ctx'[f][x] = ctx[f][x]
  BY <1>2 DEF Before, TypeOK
<1>7. /\ waiter' \in [Fds -> [Events -> {"idle", "waiting", "woken"}]]
      /\ waiter'[fd][e] = "waiting"
      /\ \A f \in Fds, x \in Events : f # fd \/ x # e => waiter'[f][x] = waiter[f][x]
  BY <1>2 DEF Before, TypeOK
<1>8. Counted(t)'
  <2>1. /\ IsFiniteSet(Registered') /\ Cardinality(Registered) \in Nat
        /\ Cardinality(Registered') = Cardinality(Registered) + 1
    BY <1>1, <1>2, RegisterOne DEF Before, InvOf, Counted
  <2>. QED
    BY <1>0, <1>2, <2>1 DEF Before, InvOf, Counted
<1>9. TypeOK'
  <2>1. m_pending_event_count' \in Nat /\ adds' \in 0..MaxAdds
    BY <1>2 DEF Before, TypeOK
  <2>. QED
    BY <1>0, <1>2, <1>4, <1>5, <1>6, <1>7, <2>1 DEF Before, TypeOK
<1>10. \A f \in Fds : Watched(t, f)'
  <2>1. \A f \in Fds : Target(t, f)' = m_events'[f]
    BY <1>0 DEF Target, Committed
  <2>2. Watched(t, fd)'
    BY <1>4, <1>5, <2>1 DEF Watched
  <2>3. \A f \in Fds \ {fd} : Watched(t, f)'
    BY <1>0, <1>4, <1>5, <2>1 DEF Before, InvOf, Watched
  <2>. QED
    BY <2>2, <2>3
<1>11. \A f \in Fds, x \in Events : Filled(t, f, x)'
  BY <1>0, <1>5, <1>6, <1>7 DEF Before, InvOf, Filled, Clearing
<1>12. OneLeft(t, m_events[op[t].fd])' /\ Fresh(t)'
  BY <1>0 DEF OneLeft, Fresh
<1>. QED
  BY <1>2, <1>8, <1>9, <1>10, <1>11, <1>12 DEF InvOf

LEMMA RunKeeps ==
    ASSUME NEW t, Before(t), NEW fd \in Fds, NEW e \in Events, RunWaiter(t, fd, e)
    PROVE  TypeOK' /\ InvOf(t)'
<1>1. /\ waiter[fd][e] = "woken" /\ waiter' = [waiter EXCEPT ![fd][e] = "idle"]
      /\ ready' = [ready EXCEPT ![fd] = @ \ {e}]
      /\ UNCHANGED <<m_events, ctx, m_pending_event_count, interest, edge, pc, op,
                     events, adds, crash>>
  BY DEF RunWaiter
<1>2. /\ waiter' \in [Fds -> [Events -> {"idle", "waiting", "woken"}]]
      /\ \A f \in Fds, x \in Events : waiter'[f][x] = "waiting" <=> waiter[f][x] = "waiting"
  BY <1>1 DEF Before, TypeOK
<1>3. /\ ready' \in [Fds -> SUBSET (Events \cup {"ERR"})]
      /\ \A f \in Fds : ready'[f] \subseteq ready[f]
  BY <1>1 DEF Before, TypeOK
<1>4. TypeOK'
  BY <1>1, <1>2, <1>3 DEF Before, TypeOK
<1>5. \A f \in Fds : Target(t, f)' = Target(t, f)
  BY <1>1 DEF Target, Committed
<1>6. \A f \in Fds : Watched(t, f)'
  BY <1>1, <1>3, <1>5 DEF Before, InvOf, Watched
<1>7. \A f \in Fds, x \in Events : Filled(t, f, x)'
  BY <1>1, <1>2 DEF Before, InvOf, Filled, Clearing
<1>8. OneLeft(t, m_events[op[t].fd])'
  BY <1>1 DEF Before, InvOf, OneLeft
<1>9. Fresh(t)' /\ Counted(t)'
  BY <1>1 DEF Before, InvOf, Fresh, Counted, Registered
<1>. QED
  BY <1>1, <1>4, <1>6, <1>7, <1>8, <1>9 DEF Before, InvOf

LEMMA StartKeeps ==
    ASSUME NEW t, Before(t), NEW kind \in AppOps, NEW fd \in Fds, NEW S \in SUBSET Events,
           StartOp(t, kind, fd, S)
    PROVE  TypeOK' /\ InvOf(t)'
<1>. USE IOAssumption
<1>1. /\ pc[t] = "free" /\ pc' = [pc EXCEPT ![t] = "ctl"]
      /\ S \cap m_events[fd] # {}
      /\ op' = [op EXCEPT ![t] = [kind |-> kind, fd |-> fd, todo |-> S, new |-> m_events[fd] \ S]]
      /\ UNCHANGED <<m_events, ctx, m_pending_event_count, kernel, events, waiter, adds, crash>>
  BY DEF StartOp, Goto
<1>2. kind = "all" => S = Events
  BY DEF StartOp
<1>3. kind # "all" => \E e \in m_events[fd] : S = {e}
  <2>1. IsFiniteSet(S)
    <3>1. {"READ", "WRITE"} = {"READ"} \cup {"WRITE"} /\ IsFiniteSet({"READ"})
      BY FS_Singleton
    <3>2. IsFiniteSet({"READ", "WRITE"}) /\ S \in SUBSET {"READ", "WRITE"}
      BY <3>1, FS_AddElement
    <3>. QED
      BY <3>2, FS_Subset
  <2>2. kind # "all" => \E e : S = {e}
    BY <2>1, FS_Singleton DEF StartOp
  <2>. QED
    BY <1>1, <2>2
<1>4. /\ pc'[t] = "ctl" /\ op'[t].kind = kind /\ op'[t].fd = fd
      /\ op'[t].todo = S /\ op'[t].new = m_events[fd] \ S
  BY <1>1 DEF Before, TypeOK
<1>5. TypeOK'
  <2>1. /\ pc' \in [Threads -> {"free", "poll", "ctl", "apply", "trigger", "clear"}]
        /\ op' \in [Threads -> [kind : {"none", "del", "cancel", "all"}, fd : Fds,
                                todo : SUBSET Events, new : SUBSET Events]]
    BY <1>1 DEF Before, TypeOK
  <2>. QED
    BY <1>1, <2>1 DEF Before, TypeOK, kernel
<1>6. \A f \in Fds : Target(t, f)' = Target(t, f)
  BY <1>1, <1>4 DEF Target, Committed
<1>7. \A f \in Fds : Watched(t, f)'
  BY <1>1, <1>6 DEF Before, InvOf, Watched, kernel
<1>8. \A f \in Fds, x \in Events : Filled(t, f, x)'
  BY <1>1, <1>4 DEF Before, InvOf, Filled, Clearing
<1>9. OneLeft(t, m_events[op[t].fd])'
  <2>1. m_events[fd] \in SUBSET Events /\ kind \in {"del", "cancel", "all"}
    BY DEF Before, TypeOK
  <2>. QED
    BY <1>1, <1>2, <1>3, <1>4, <2>1 DEF OneLeft
<1>10. Fresh(t)' /\ Counted(t)'
  BY <1>1, <1>4 DEF Before, InvOf, Fresh, Counted, Registered
<1>. QED
  BY <1>1, <1>5, <1>7, <1>8, <1>9, <1>10 DEF Before, InvOf

LEMMA CtlKeeps ==
    ASSUME NEW t, Before(t), OpCtl(t) PROVE TypeOK' /\ InvOf(t)'
<1>. USE IOAssumption
<1>0. PICK fd \in Fds, m \in SUBSET Events, new \in SUBSET Events :
        fd = op[t].fd /\ m = m_events[fd] /\ new = op[t].new
  BY DEF Before, TypeOK
<1>1. /\ pc[t] = "ctl" /\ OneLeft(t, m) /\ events[t] = {}
      /\ op[t].kind \in {"del", "cancel", "all"}
  BY <1>0 DEF OpCtl, Before, TypeOK, InvOf, Fresh, OneLeft
<1>2. m # {} /\ new \subseteq m
  BY <1>0, <1>1 DEF OneLeft
<1>3. \A f \in Fds : Target(t, f) = m_events[f]
  BY <1>1 DEF Target, Committed
<1>4. ~CtlFails(fd, FALSE)
  <2>1. interest[fd] = m
    BY <1>0, <1>2, <1>3 DEF Before, InvOf, Watched
  <2>. QED
    BY <2>1, AbsentApart DEF CtlFails
<1>5. PICK l \in {"apply", "trigger"} :
        pc' = [pc EXCEPT ![t] = l] /\ (l = "apply" <=> op[t].kind = "del")
  BY <1>0, <1>4 DEF OpCtl, Goto
<1>6. /\ Ctl(fd, new)
      /\ UNCHANGED <<m_events, ctx, m_pending_event_count, op, events, waiter, adds, crash>>
  BY <1>0, <1>4 DEF OpCtl
<1>7. /\ interest' \in [Fds -> (SUBSET Events) \cup {Absent}] /\ edge' \subseteq Fds
      /\ interest'[fd] = IF new = {} THEN Absent ELSE new
      /\ new # {} => fd \in edge'
      /\ \A f \in Fds \ {fd} : interest'[f] = interest[f] /\ (f \in edge => f \in edge')
      /\ ready' = ready
  BY <1>6, CtlEffect DEF Before
<1>8. pc'[t] = l /\ pc' \in [Threads -> {"free", "poll", "ctl", "apply", "trigger", "clear"}]
  BY <1>5 DEF Before, TypeOK
<1>9. TypeOK'
  BY <1>6, <1>7, <1>8 DEF Before, TypeOK
<1>10. Target(t, fd)' = new /\ \A f \in Fds \ {fd} : Target(t, f)' = m_events[f]
  BY <1>0, <1>6, <1>8 DEF Target, Committed
<1>11. \A f \in Fds : Watched(t, f)'
  <2>1. Watched(t, fd)'
    <3>1. interest'[fd] = IF Target(t, fd)' = {} THEN Absent ELSE Target(t, fd)'
      BY <1>7, <1>10
    <3>2. Target(t, fd)' # {} => fd \in edge'
      BY <1>7, <1>10
    <3>. QED
      BY <1>6, <3>1, <3>2 DEF Watched
  <2>2. \A f \in Fds \ {fd} : Watched(t, f)'
    BY <1>3, <1>6, <1>7, <1>10 DEF Before, InvOf, Watched
  <2>. QED
    BY <2>1, <2>2
<1>12. \A f \in Fds, x \in Events : Filled(t, f, x)'
  BY <1>1, <1>5, <1>6, <1>8 DEF Before, InvOf, Filled, Clearing
<1>13. OneLeft(t, m_events[op[t].fd])'
  BY <1>0, <1>1, <1>5, <1>6, <1>8 DEF OneLeft
<1>14. Fresh(t)' /\ Counted(t)'
  BY <1>1, <1>6, <1>8 DEF Before, InvOf, Fresh, Counted, Registered
<1>. QED
  BY <1>6, <1>9, <1>11, <1>12, <1>13, <1>14 DEF Before, InvOf

LEMMA ApplyKeeps ==
    ASSUME NEW t, Before(t), DelApply(t) PROVE TypeOK' /\ InvOf(t)'
<1>. USE IOAssumption
<1>0. PICK fd \in Fds, m \in SUBSET Events : fd = op[t].fd /\ m = m_events[fd]
  BY DEF Before, TypeOK
<1>1. pc[t] = "apply" /\ OneLeft(t, m) /\ events[t] = {}
  BY <1>0 DEF DelApply, Before, InvOf, Fresh
<1>2. PICK e \in m : op[t].todo = {e} /\ op[t].new = m \ {e} /\ op[t].kind = "del"
  BY <1>0, <1>1 DEF OneLeft
<1>3. /\ m_pending_event_count' = m_pending_event_count - 1
      /\ m_events' = [m_events EXCEPT ![fd] = m \ {e}]
      /\ ctx' = CtxWithout(fd, {e}, Parts)
      /\ pc' = [pc EXCEPT ![t] = "free"]
      /\ UNCHANGED <<interest, ready, edge, op, events, adds, crash>>
  BY <1>0, <1>2 DEF DelApply, Goto, kernel
<1>4. /\ waiter' \in [Fds -> [Events -> {"idle", "waiting", "woken"}]]
      /\ waiter'[fd][e] # "waiting"
      /\ \A f \in Fds, x \in Events : f # fd \/ x # e => waiter'[f][x] = waiter[f][x]
  <2>1. PICK g : g = [x \in Events |-> IF x \in {e} /\ waiter[fd][x] = "waiting" THEN "idle"
                                       ELSE waiter[fd][x]]
    OBVIOUS
  <2>2. waiter' = [waiter EXCEPT ![fd] = g]
    BY <1>0, <1>2, <2>1 DEF DelApply
  <2>3. waiter \in [Fds -> [Events -> {"idle", "waiting", "woken"}]]
    BY DEF Before, TypeOK
  <2>4. g \in [Events -> {"idle", "waiting", "woken"}]
    BY <2>1, <2>3
  <2>. QED
    BY <1>2, <2>1, <2>2, <2>3, <2>4
<1>5. /\ ctx' \in [Fds -> [Events -> SUBSET Parts]]
      /\ \A x \in Events : ctx'[fd][x] = IF x \in {e} THEN ctx[fd][x] \ Parts ELSE ctx[fd][x]
      /\ \A f \in Fds \ {fd} : ctx'[f] = ctx[f]
  <2>1. {e} \in SUBSET Events /\ Parts \in SUBSET Parts
    BY <1>2
  <2>. QED
    BY <1>3, <2>1, CtxEffect DEF Before
<1>6. /\ m_events' \in [Fds -> SUBSET Events] /\ m_events'[fd] = m \ {e}
      /\ \A f \in Fds \ {fd} : m_events'[f] = m_events[f]
  BY <1>2, <1>3 DEF Before, TypeOK
<1>7. Counted(t)' /\ m_pending_event_count' \in Nat
  <2>1. {e} \in SUBSET m_events[fd] /\ m_events' = [m_events EXCEPT ![fd] = m_events[fd] \ {e}]
    BY <1>0, <1>2, <1>3
  <2>2. /\ IsFiniteSet(Registered') /\ Cardinality(Registered) \in Nat
        /\ Cardinality(Registered') = Cardinality(Registered) - Cardinality({e})
    BY <2>1, Withdraw DEF Before, InvOf, Counted
  <2>3. Cardinality({e}) = 1
    BY FS_Singleton
  <2>4. Cardinality(Registered') \in Nat
    BY <2>2, FS_CardinalityType
  <2>5. pc'[t] = "free"
    BY <1>3 DEF Before, TypeOK
  <2>. QED
    BY <1>1, <1>3, <2>2, <2>3, <2>4, <2>5 DEF Before, InvOf, Counted
<1>8. pc'[t] = "free" /\ pc' \in [Threads -> {"free", "poll", "ctl", "apply", "trigger", "clear"}]
  BY <1>3 DEF Before, TypeOK
<1>9. TypeOK'
  BY <1>3, <1>4, <1>5, <1>6, <1>7, <1>8 DEF Before, TypeOK
<1>10. \A f \in Fds : Target(t, f)' = Target(t, f)
  BY <1>0, <1>1, <1>2, <1>6, <1>8 DEF Target, Committed
<1>11. \A f \in Fds : Watched(t, f)'
  BY <1>3, <1>10 DEF Before, InvOf, Watched
<1>12. \A f \in Fds, x \in Events : Filled(t, f, x)'
  <2>1. \A f \in Fds, x \in Events : Filled(t, f, x) /\ ~Clearing(t, f, x) /\ ~Clearing(t, f, x)'
    BY <1>1, <1>8 DEF Before, InvOf, Clearing
  <2>2. \A f \in Fds \ {fd}, x \in Events : Filled(t, f, x)'
    BY <1>4, <1>5, <1>6, <2>1 DEF Filled
  <2>3. \A x \in Events \ {e} : Filled(t, fd, x)'
    <3>1. \A x \in Events \ {e} : /\ ctx'[fd][x] = ctx[fd][x] /\ waiter'[fd][x] = waiter[fd][x]
                                  /\ x \in m_events'[fd] <=> x \in m_events[fd]
      <4>1. \A x \in Events \ {e} : ctx'[fd][x] = ctx[fd][x]
        BY <1>5
      <4>2. \A x \in Events \ {e} : waiter'[fd][x] = waiter[fd][x]
        BY <1>4
      <4>3. \A x \in Events \ {e} : x \in m_events'[fd] <=> x \in m_events[fd]
        BY <1>0, <1>6
      <4>. QED
        BY <4>1, <4>2, <4>3
    <3>. QED
      BY <2>1, <3>1 DEF Filled
  <2>4. Filled(t, fd, e)'
    <3>1. ctx[fd][e] \in SUBSET Parts
      BY <1>2 DEF Before, TypeOK
    <3>2. e \in Events /\ ctx'[fd][e] = {} /\ e \notin m_events'[fd]
      BY <1>2, <1>5, <1>6, <3>1
    <3>. QED
      BY <1>4, <2>1, <3>2 DEF Filled
  <2>. QED
    BY <2>2, <2>3, <2>4
<1>13. OneLeft(t, m_events[op[t].fd])' /\ Fresh(t)'
  BY <1>1, <1>3, <1>8 DEF OneLeft, Fresh
<1>. QED
  BY <1>3, <1>7, <1>9, <1>11, <1>12, <1>13 DEF Before, InvOf

LEMMA TriggerKeeps ==
    ASSUME NEW t, Before(t), OpTrigger(t) PROVE TypeOK' /\ InvOf(t)'
<1>. USE IOAssumption
<1>0. PICK fd \in Fds, m \in SUBSET Events : fd = op[t].fd /\ m = m_events[fd]
  BY DEF Before, TypeOK
<1>1. /\ pc[t] = "trigger" /\ OneLeft(t, m) /\ events[t] = {}
      /\ op[t].kind \in {"cancel", "all"}
  BY <1>0 DEF OpTrigger, Before, InvOf, Fresh, OneLeft
<1>2. PICK S : S = NextTodo(t)
  OBVIOUS
<1>3. /\ S \in SUBSET m
      /\ S # {} => \E e \in m : S = {e} /\ (op[t].kind = "all" => e = "READ" \/ m \ S = {})
      /\ S = {} => m = {}
      /\ op[t].kind # "all" => op[t].new = m \ S /\ S # {}
      /\ op[t].kind = "all" => op[t].new = {}
  <2>1. CASE op[t].kind = "all"
    <3>1. m \subseteq op[t].todo /\ op[t].new = {}
      BY <1>1, <2>1 DEF OneLeft
    <3>2. S = IF "READ" \in m THEN {"READ"} ELSE m
      BY <1>0, <1>2, <2>1, <3>1 DEF NextTodo
    <3>3. CASE "READ" \in m
      BY <2>1, <3>1, <3>2, <3>3
    <3>4. CASE "READ" \notin m
      <4>1. m \subseteq {"WRITE"}
        BY <3>4
      <4>2. m = {} \/ m = {"WRITE"}
        BY <4>1
      <4>. QED
        BY <2>1, <3>1, <3>2, <3>4, <4>2
    <3>. QED
      BY <3>3, <3>4
  <2>2. CASE op[t].kind = "cancel"
    <3>1. PICK e \in m : op[t].todo = {e} /\ op[t].new = m \ {e}
      BY <1>1, <2>2 DEF OneLeft
    <3>2. S = {e}
      BY <1>2, <2>2, <3>1 DEF NextTodo
    <3>. QED
      BY <2>2, <3>1, <3>2
  <2>. QED
    BY <1>1, <2>1, <2>2
<1>4. TriggerFault(fd, S) = "none"
  BY <1>0, <1>3, TriggerSucceeds DEF Before, InvOf
<1>5. CASE S = {}
  <2>1. /\ crash' = "none" /\ pc' = [pc EXCEPT ![t] = "free"]
        /\ UNCHANGED <<m_events, ctx, waiter, op, m_pending_event_count, interest, ready, edge,
                       events, adds>>
    BY <1>0, <1>2, <1>3, <1>4, <1>5 DEF OpTrigger, Goto, kernel
  <2>2. pc'[t] = "free" /\ pc' \in [Threads -> {"free", "poll", "ctl", "apply", "trigger", "clear"}]
    BY <2>1 DEF Before, TypeOK
  <2>3. TypeOK'
    BY <2>1, <2>2 DEF Before, TypeOK
  <2>4. \A f \in Fds : Target(t, f)' = Target(t, f)
    BY <1>0, <1>1, <1>3, <1>5, <2>1, <2>2 DEF Target, Committed
  <2>5. \A f \in Fds : Watched(t, f)'
    BY <2>1, <2>4 DEF Before, InvOf, Watched
  <2>6. \A f \in Fds, x \in Events : Filled(t, f, x)'
    BY <1>1, <2>1, <2>2 DEF Before, InvOf, Filled, Clearing
  <2>7. OneLeft(t, m_events[op[t].fd])' /\ Fresh(t)'
    BY <1>1, <2>1, <2>2 DEF OneLeft, Fresh
  <2>8. Counted(t)'
    BY <1>1, <2>1, <2>2 DEF Before, InvOf, Counted, Registered
  <2>. QED
    BY <2>1, <2>3, <2>5, <2>6, <2>7, <2>8 DEF InvOf
<1>6. CASE S # {}
  <2>0. PICK e \in m : S = {e} /\ (op[t].kind = "all" => e = "READ" \/ m \ S = {})
    BY <1>3, <1>6
  <2>1. /\ crash' = "none" /\ pc' = [pc EXCEPT ![t] = "clear"]
        /\ m_events' = [m_events EXCEPT ![fd] = m_events[fd] \ S]
        /\ ctx' = CtxWithout(fd, S, {"cb"}) /\ waiter' = Woken(fd, S)
        /\ op' = [op EXCEPT ![t].todo = S]
        /\ UNCHANGED <<m_pending_event_count, interest, ready, edge, events, adds>>
    BY <1>0, <1>2, <1>4, <1>6 DEF OpTrigger, Goto, kernel
  <2>2. /\ pc'[t] = "clear" /\ pc' \in [Threads -> {"free", "poll", "ctl", "apply", "trigger", "clear"}]
        /\ op'[t].todo = S /\ op'[t].fd = fd /\ op'[t].new = op[t].new /\ op'[t].kind = op[t].kind
        /\ op' \in [Threads -> [kind : {"none", "del", "cancel", "all"}, fd : Fds,
                                todo : SUBSET Events, new : SUBSET Events]]
    <3>1. S \in SUBSET Events
      BY <1>3
    <3>2. /\ op \in [Threads -> [kind : {"none", "del", "cancel", "all"}, fd : Fds,
                                 todo : SUBSET Events, new : SUBSET Events]]
          /\ t \in Threads /\ pc \in [Threads -> {"free", "poll", "ctl", "apply", "trigger", "clear"}]
      BY DEF Before, TypeOK
    <3>3. op' = [op EXCEPT ![t] = [kind |-> op[t].kind, fd |-> op[t].fd, todo |-> S, new |-> op[t].new]]
      <4>1. PICK o : o = [op[t] EXCEPT !.todo = S]
        OBVIOUS
      <4>2. op' = [op EXCEPT ![t] = o]
        BY <2>1, <4>1
      <4>3. o = [kind |-> op[t].kind, fd |-> op[t].fd, todo |-> S, new |-> op[t].new]
        BY <3>2, <4>1
      <4>. QED
        BY <4>2, <4>3
    <3>. QED
      BY <1>0, <2>1, <3>1, <3>2, <3>3
  <2>3. /\ m_events' \in [Fds -> SUBSET Events] /\ m_events'[fd] = m \ S
        /\ \A f \in Fds \ {fd} : m_events'[f] = m_events[f]
    BY <1>0, <2>1 DEF Before, TypeOK
  <2>4. /\ ctx' \in [Fds -> [Events -> SUBSET Parts]]
        /\ \A x \in Events : ctx'[fd][x] = IF x \in S THEN ctx[fd][x] \ {"cb"} ELSE ctx[fd][x]
        /\ \A f \in Fds \ {fd} : ctx'[f] = ctx[f]
    <3>1. {"cb"} \in SUBSET Parts /\ S \in SUBSET Events
      BY <1>3 DEF Parts
    <3>. QED
      BY <2>1, <3>1, CtxEffect DEF Before
  <2>5. /\ waiter' \in [Fds -> [Events -> {"idle", "waiting", "woken"}]]
        /\ \A x \in Events : waiter'[fd][x] = IF x \in S THEN "woken" ELSE waiter[fd][x]
        /\ \A f \in Fds \ {fd} : waiter'[f] = waiter[f]
    BY <1>3, <2>1, WokenEffect DEF Before
  <2>6. TypeOK'
    BY <2>1, <2>2, <2>3, <2>4, <2>5 DEF Before, TypeOK
  <2>7. Counted(t)'
    <3>1. /\ IsFiniteSet(Registered') /\ Cardinality(Registered) \in Nat
          /\ Cardinality(Registered') = Cardinality(Registered) - Cardinality(S)
      BY <1>0, <1>3, <2>1, Withdraw DEF Before, InvOf, Counted
    <3>2. Cardinality(S) = 1
      BY <2>0, FS_Singleton
    <3>. QED
      BY <1>1, <2>1, <2>2, <3>1, <3>2 DEF Before, InvOf, Counted
  <2>8. \A f \in Fds : Target(t, f)' = Target(t, f)
    BY <1>0, <1>1, <2>2, <2>3 DEF Target, Committed
  <2>9. \A f \in Fds : Watched(t, f)'
    BY <2>1, <2>8 DEF Before, InvOf, Watched
  <2>10. \A f \in Fds, x \in Events : Filled(t, f, x)'
    <3>1. \A f \in Fds, x \in Events : Filled(t, f, x) /\ ~Clearing(t, f, x)
      BY <1>1 DEF Before, InvOf, Clearing
    <3>2. \A f \in Fds, x \in Events : Clearing(t, f, x)' <=> f = fd /\ x \in S
      BY <2>2 DEF Clearing
    <3>3. \A f \in Fds \ {fd}, x \in Events : Filled(t, f, x)'
      BY <2>3, <2>4, <2>5, <3>1, <3>2 DEF Filled
    <3>4. \A x \in Events \ S : Filled(t, fd, x)'
      <4>1. \A x \in Events \ S : /\ ctx'[fd][x] = ctx[fd][x] /\ waiter'[fd][x] = waiter[fd][x]
                                  /\ x \in m_events'[fd] <=> x \in m_events[fd]
        BY <1>0, <2>3, <2>4, <2>5
      <4>. QED
        BY <3>1, <3>2, <4>1 DEF Filled
    <3>5. \A x \in S : Filled(t, fd, x)'
      <4>1. Parts \ {"cb"} = {"scheduler"}
        BY DEF Parts
      <4>2. \A x \in S : x \in Events /\ ctx[fd][x] = Parts
        BY <1>0, <1>3, <3>1 DEF Filled
      <4>. QED
        BY <2>3, <2>4, <2>5, <3>2, <4>1, <4>2 DEF Filled
    <3>. QED
      BY <3>3, <3>4, <3>5
  <2>11. OneLeft(t, m_events[op[t].fd])'
    BY <1>1, <1>3, <2>0, <2>2, <2>3 DEF OneLeft
  <2>12. Fresh(t)'
    BY <1>1, <2>1 DEF Fresh
  <2>. QED
    BY <2>1, <2>6, <2>7, <2>9, <2>10, <2>11, <2>12 DEF InvOf
<1>. QED
  BY <1>5, <1>6

LEMMA ClearKeeps ==
    ASSUME NEW t, Before(t), OpClear(t) PROVE TypeOK' /\ InvOf(t)'
<1>. USE IOAssumption
<1>0. PICK fd \in Fds, m \in SUBSET Events : fd = op[t].fd /\ m = m_events[fd]
  BY DEF Before, TypeOK
<1>1. /\ pc[t] = "clear" /\ OneLeft(t, m) /\ events[t] = {}
      /\ op[t].kind \in {"cancel", "all"}
  BY <1>0 DEF OpClear, Before, InvOf, Fresh, OneLeft
<1>2. PICK e \in Events : /\ op[t].todo = {e} /\ e \notin m
                          /\ op[t].kind = "all" => e = "READ" \/ m = {}
  BY <1>1 DEF OneLeft
<1>3. /\ ctx' = CtxWithout(fd, {e}, {"scheduler"})
      /\ m_pending_event_count' = m_pending_event_count - 1
      /\ UNCHANGED <<m_events, interest, ready, edge, events, waiter, adds, crash>>
  BY <1>0, <1>2 DEF OpClear, kernel
<1>4. /\ ctx' \in [Fds -> [Events -> SUBSET Parts]]
      /\ \A x \in Events : ctx'[fd][x] = IF x \in {e} THEN ctx[fd][x] \ {"scheduler"} ELSE ctx[fd][x]
      /\ \A f \in Fds \ {fd} : ctx'[f] = ctx[f]
  <2>1. {e} \in SUBSET Events /\ {"scheduler"} \in SUBSET Parts
    BY DEF Parts
  <2>. QED
    BY <1>3, <2>1, CtxEffect DEF Before
<1>5. /\ op \in [Threads -> [kind : {"none", "del", "cancel", "all"}, fd : Fds,
                             todo : SUBSET Events, new : SUBSET Events]]
      /\ t \in Threads /\ pc \in [Threads -> {"free", "poll", "ctl", "apply", "trigger", "clear"}]
  BY DEF Before, TypeOK
<1>6. /\ op' \in [Threads -> [kind : {"none", "del", "cancel", "all"}, fd : Fds,
                              todo : SUBSET Events, new : SUBSET Events]]
      /\ op'[t].fd = fd /\ op'[t].new = op[t].new /\ op'[t].kind = op[t].kind
      /\ op[t].kind = "all" => m \subseteq op'[t].todo
  <2>1. CASE op[t].kind = "all"
    <3>1. PICK T : T = IF {e} = {"READ"} THEN Events \ {"READ"} ELSE {}
      OBVIOUS
    <3>2. T \in SUBSET Events /\ m \subseteq T
      BY <1>2, <2>1, <3>1
    <3>3. op' = [op EXCEPT ![t].todo = T]
      BY <1>2, <2>1, <3>1 DEF OpClear
    <3>4. PICK o : o = [op[t] EXCEPT !.todo = T]
      OBVIOUS
    <3>5. op' = [op EXCEPT ![t] = o]
      BY <3>3, <3>4
    <3>6. o = [kind |-> op[t].kind, fd |-> op[t].fd, todo |-> T, new |-> op[t].new]
      BY <1>5, <3>4
    <3>. QED
      BY <1>0, <1>5, <3>2, <3>5, <3>6
  <2>2. CASE op[t].kind # "all"
    BY <1>0, <1>5, <2>2 DEF OpClear
  <2>. QED
    BY <2>1, <2>2
<1>7. PICK l \in {"free", "trigger"} :
        pc' = [pc EXCEPT ![t] = l] /\ (l = "trigger" <=> op[t].kind = "all")
  BY DEF OpClear, Goto
<1>8. pc'[t] = l /\ pc' \in [Threads -> {"free", "poll", "ctl", "apply", "trigger", "clear"}]
  BY <1>5, <1>7
<1>9. Counted(t)' /\ m_pending_event_count' \in Nat
  <2>1. Registered' = Registered /\ IsFiniteSet(Registered) /\ Cardinality(Registered) \in Nat
    BY <1>3, FS_CardinalityType DEF Registered, Before, InvOf, Counted
  <2>. QED
    BY <1>1, <1>3, <1>7, <1>8, <2>1 DEF Before, InvOf, Counted
<1>10. TypeOK'
  BY <1>3, <1>4, <1>6, <1>8, <1>9 DEF Before, TypeOK
<1>11. \A f \in Fds : Target(t, f)' = Target(t, f)
  <2>1. op[t].kind # "all" => op[t].new = m
    BY <1>1 DEF OneLeft
  <2>. QED
    BY <1>0, <1>1, <1>3, <1>6, <1>7, <1>8, <2>1 DEF Target, Committed
<1>12. \A f \in Fds : Watched(t, f)'
  BY <1>3, <1>11 DEF Before, InvOf, Watched
<1>13. \A f \in Fds, x \in Events : Filled(t, f, x)'
  <2>1. \A f \in Fds, x \in Events : Filled(t, f, x) /\ ~Clearing(t, f, x)'
    BY <1>7, <1>8 DEF Before, InvOf, Clearing
  <2>2. \A f \in Fds, x \in Events : Clearing(t, f, x) <=> f = fd /\ x = e
    BY <1>0, <1>1, <1>2 DEF Clearing
  <2>3. ASSUME NEW f \in Fds, NEW x \in Events, f # fd \/ x # e PROVE Filled(t, f, x)'
    <3>1. ctx'[f][x] = ctx[f][x]
      BY <1>4, <2>3
    <3>2. Filled(t, f, x) /\ ~Clearing(t, f, x) /\ ~Clearing(t, f, x)'
      BY <2>1, <2>2, <2>3
    <3>. QED
      BY <1>3, <3>1, <3>2 DEF Filled
  <2>4. Filled(t, fd, e)'
    <3>1. ctx[fd][e] = {"scheduler"} /\ waiter[fd][e] # "waiting"
      BY <1>0, <1>2, <2>1, <2>2 DEF Filled
    <3>2. ctx'[fd][e] = {} /\ ~Clearing(t, fd, e)'
      BY <1>4, <2>1, <3>1
    <3>. QED
      BY <1>0, <1>2, <1>3, <3>1, <3>2 DEF Filled
  <2>. QED
    BY <2>3, <2>4
<1>14. OneLeft(t, m_events[op[t].fd])'
  <2>1. m_events'[op'[t].fd] = m /\ (op[t].kind = "all" => op[t].new = {})
    BY <1>0, <1>1, <1>3, <1>6 DEF OneLeft
  <2>. QED
    BY <1>1, <1>6, <1>7, <1>8, <2>1 DEF OneLeft
<1>15. Fresh(t)'
  BY <1>1, <1>3 DEF Fresh
<1>. QED
  BY <1>3, <1>9, <1>10, <1>12, <1>13, <1>14, <1>15 DEF Before, InvOf

LEMMA EpollKeeps ==
    ASSUME NEW t, Before(t), EpollWait(t) PROVE TypeOK' /\ InvOf(t)'
<1>. USE IOAssumption
<1>1. /\ pc[t] = "free" /\ pc' = [pc EXCEPT ![t] = "poll"]
      /\ edge' = edge \ Reportable
      /\ events' = [events EXCEPT ![t] = {[fd |-> fd, events |-> Report(fd)] : fd \in Reportable}]
      /\ UNCHANGED <<m_events, ctx, m_pending_event_count, interest, ready, op, waiter, adds, crash>>
  BY DEF EpollWait, Goto
<1>2. \A f \in Fds : Target(t, f) = m_events[f]
  BY <1>1 DEF Target, Committed
<1>3. \A f \in Fds : interest[f] = IF m_events[f] = {} THEN Absent ELSE m_events[f]
  BY <1>2 DEF Before, InvOf, Watched
<1>4. \A f \in Reportable : /\ f \in Fds /\ Report(f) # {} /\ m_events[f] # {}
                            /\ Report(f) \subseteq Events \cup {"ERR"}
                            /\ Report(f) \cap Events \subseteq m_events[f]
  BY <1>3 DEF Reportable, Report, Before, TypeOK
<1>5. /\ pc'[t] = "poll" /\ pc' \in [Threads -> {"free", "poll", "ctl", "apply", "trigger", "clear"}]
      /\ events' \in [Threads -> SUBSET [fd : Fds, events : SUBSET (Events \cup {"ERR"})]]
      /\ events'[t] = {[fd |-> fd, events |-> Report(fd)] : fd \in Reportable}
  BY <1>1, <1>4 DEF Before, TypeOK
<1>6. TypeOK'
  BY <1>1, <1>5 DEF Before, TypeOK
<1>7. \A f \in Fds : Target(t, f)' = m_events[f]
  BY <1>1, <1>5 DEF Target, Committed
<1>8. \A f \in Fds : Watched(t, f)'
  <2>. SUFFICES ASSUME NEW f \in Fds, m_events[f] \cap ready[f] # {}
                PROVE  f \in edge' \/ \E r \in events'[t] : r.fd = f
    BY <1>1, <1>3, <1>7 DEF Watched
  <2>1. f \in edge
    BY <1>1, <1>2 DEF Before, InvOf, Watched, Fresh
  <2>2. interest[f] = m_events[f] /\ interest[f] # Absent
    BY <1>3, AbsentApart DEF Before, TypeOK
  <2>3. f \in Reportable
    BY <2>1, <2>2 DEF Reportable, Report
  <2>. QED
    <3>1. [fd |-> f, events |-> Report(f)] \in events'[t]
      BY <1>5, <2>3
    <3>. QED
      BY <3>1
<1>9. \A f \in Fds, x \in Events : Filled(t, f, x)'
  BY <1>1, <1>5 DEF Before, InvOf, Filled, Clearing
<1>10. OneLeft(t, m_events[op[t].fd])'
  BY <1>5 DEF OneLeft
<1>11. Fresh(t)'
  BY <1>1, <1>4, <1>5 DEF Fresh
<1>12. Counted(t)'
  BY <1>1, <1>5 DEF Before, InvOf, Counted, Registered
<1>. QED
  BY <1>1, <1>6, <1>8, <1>9, <1>10, <1>11, <1>12 DEF Before, InvOf

LEMMA HandleKeeps ==
    ASSUME NEW t, Before(t), HandleEvent(t) PROVE TypeOK' /\ InvOf(t)'
<1>. USE IOAssumption
<1>. DEFINE Real(r) == (r.events \cap Events)
                         \cup (IF "ERR" \in r.events THEN m_events[r.fd] ELSE {})
            Skip(r) == m_events[r.fd] \cap Real(r) = {} \/ CtlFails(r.fd, FALSE)
<1>1. PICK r \in events[t] :
        /\ events' = [events EXCEPT ![t] = @ \ {r}]
        /\ Goto(t, IF events[t] = {r} THEN "free" ELSE "poll")
        /\ ~Skip(r) => /\ Ctl(r.fd, m_events[r.fd] \ Real(r))
                       /\ crash' = TriggerFault(r.fd, Real(r))
                       /\ m_events' = [m_events EXCEPT ![r.fd] = @ \ Real(r)]
                       /\ ctx' = CtxWithout(r.fd, Real(r), Parts)
                       /\ waiter' = Woken(r.fd, Real(r))
                       /\ m_pending_event_count' = m_pending_event_count - Cardinality(Real(r))
  BY DEF HandleEvent
<1>2. /\ pc[t] = "poll" /\ UNCHANGED <<op, adds>>
      /\ r \in [fd : Fds, events : SUBSET (Events \cup {"ERR"})]
      /\ r.events # {} /\ m_events[r.fd] # {} /\ r.events \cap Events \subseteq m_events[r.fd]
      /\ \A q \in events[t] : q.fd = r.fd => q = r
  BY DEF HandleEvent, Before, TypeOK, InvOf, Fresh
<1>3. PICK fd \in Fds, m \in SUBSET Events, S \in SUBSET Events :
        fd = r.fd /\ m = m_events[fd] /\ S = Real(r) /\ S \subseteq m
  <2>1. r.fd \in Fds /\ m_events[r.fd] \in SUBSET Events
    BY <1>2 DEF Before, TypeOK
  <2>2. Real(r) \in SUBSET Events /\ Real(r) \subseteq m_events[r.fd]
    BY <1>2, <2>1
  <2>3. PICK fd \in Fds : fd = r.fd
    BY <2>1
  <2>4. PICK m \in SUBSET Events : m = m_events[fd]
    BY <2>1, <2>3
  <2>5. PICK S \in SUBSET Events : S = Real(r)
    BY <2>2
  <2>. QED
    BY <2>2, <2>3, <2>4, <2>5
<1>4. m # {} /\ S # {}
  BY <1>2, <1>3
<1>5. \A f \in Fds : Target(t, f) = m_events[f]
  BY <1>2 DEF Target, Committed
<1>6. ~Skip(r)
  <2>1. interest[fd] = m
    BY <1>3, <1>4, <1>5 DEF Before, InvOf, Watched
  <2>. QED
    BY <1>3, <1>4, <2>1, AbsentApart DEF CtlFails
<1>7. /\ Ctl(fd, m \ S) /\ crash' = TriggerFault(fd, S)
      /\ m_events' = [m_events EXCEPT ![fd] = m_events[fd] \ S]
      /\ ctx' = CtxWithout(fd, S, Parts) /\ waiter' = Woken(fd, S)
      /\ m_pending_event_count' = m_pending_event_count - Cardinality(S)
  BY <1>1, <1>3, <1>6
<1>. HIDE DEF Real, Skip
<1>8. crash' = "none"
  BY <1>3, <1>7, TriggerSucceeds DEF Before, InvOf
<1>9. /\ interest' \in [Fds -> (SUBSET Events) \cup {Absent}] /\ edge' \subseteq Fds
      /\ interest'[fd] = IF m \ S = {} THEN Absent ELSE m \ S
      /\ m \ S # {} => fd \in edge'
      /\ \A f \in Fds \ {fd} : interest'[f] = interest[f] /\ (f \in edge => f \in edge')
      /\ ready' = ready
  <2>1. m \ S \in SUBSET Events
    OBVIOUS
  <2>. QED
    BY <1>7, <2>1, CtlEffect DEF Before
<1>10. /\ ctx' \in [Fds -> [Events -> SUBSET Parts]]
       /\ \A x \in Events : ctx'[fd][x] = IF x \in S THEN ctx[fd][x] \ Parts ELSE ctx[fd][x]
       /\ \A f \in Fds \ {fd} : ctx'[f] = ctx[f]
  <2>1. S \in SUBSET Events /\ Parts \in SUBSET Parts
    OBVIOUS
  <2>. QED
    BY <1>7, <2>1, CtxEffect DEF Before
<1>11. /\ waiter' \in [Fds -> [Events -> {"idle", "waiting", "woken"}]]
       /\ \A x \in Events : waiter'[fd][x] = IF x \in S THEN "woken" ELSE waiter[fd][x]
       /\ \A f \in Fds \ {fd} : waiter'[f] = waiter[f]
  <2>1. S \in SUBSET Events
    OBVIOUS
  <2>. QED
    BY <1>7, <2>1, WokenEffect DEF Before
<1>12. /\ m_events' \in [Fds -> SUBSET Events] /\ m_events'[fd] = m \ S
       /\ \A f \in Fds \ {fd} : m_events'[f] = m_events[f]
  BY <1>3, <1>7 DEF Before, TypeOK
<1>13. PICK l \in {"free", "poll"} :
         pc' = [pc EXCEPT ![t] = l] /\ (l = "free" <=> events[t] = {r})
  BY <1>1 DEF Goto
<1>14. /\ pc'[t] = l /\ pc' \in [Threads -> {"free", "poll", "ctl", "apply", "trigger", "clear"}]
       /\ events' \in [Threads -> SUBSET [fd : Fds, events : SUBSET (Events \cup {"ERR"})]]
       /\ events'[t] = events[t] \ {r}
  <2>1. /\ t \in Threads /\ pc \in [Threads -> {"free", "poll", "ctl", "apply", "trigger", "clear"}]
        /\ events \in [Threads -> SUBSET [fd : Fds, events : SUBSET (Events \cup {"ERR"})]]
    BY DEF Before, TypeOK
  <2>2. events[t] \ {r} \in SUBSET [fd : Fds, events : SUBSET (Events \cup {"ERR"})]
    BY <2>1
  <2>. QED
    BY <1>1, <1>13, <2>1, <2>2
<1>15. Counted(t)' /\ m_pending_event_count' \in Nat
  <2>1. /\ IsFiniteSet(Registered') /\ Cardinality(Registered) \in Nat /\ Cardinality(S) \in Nat
        /\ Cardinality(Registered') = Cardinality(Registered) - Cardinality(S)
    BY <1>3, <1>7, Withdraw DEF Before, InvOf, Counted
  <2>2. Cardinality(Registered') \in Nat
    BY <2>1, FS_CardinalityType
  <2>. QED
    BY <1>2, <1>7, <1>13, <1>14, <2>1, <2>2 DEF Before, InvOf, Counted
<1>16. TypeOK'
  BY <1>2, <1>8, <1>9, <1>10, <1>11, <1>12, <1>14, <1>15 DEF Before, TypeOK
<1>17. \A f \in Fds : Target(t, f)' = m_events'[f]
  BY <1>13, <1>14 DEF Target, Committed
<1>18. \A f \in Fds : Watched(t, f)'
  <2>1. Watched(t, fd)'
    <3>1. Target(t, fd)' = m \ S
      BY <1>12, <1>17
    <3>. QED
      BY <1>9, <3>1 DEF Watched
  <2>2. ASSUME NEW f \in Fds \ {fd} PROVE Watched(t, f)'
    <3>1. Target(t, f)' = m_events[f] /\ Target(t, f) = m_events[f]
      BY <1>5, <1>12, <1>17
    <3>2. Watched(t, f)
      BY DEF Before, InvOf
    <3>3. \A q \in events[t] : q.fd = f => q \in events'[t]
      BY <1>3, <1>14
    <3>. QED
      BY <1>9, <3>1, <3>2, <3>3 DEF Watched
  <2>. QED
    BY <2>1, <2>2
<1>19. \A f \in Fds, x \in Events : Filled(t, f, x)'
  <2>1. \A f \in Fds, x \in Events : Filled(t, f, x) /\ ~Clearing(t, f, x) /\ ~Clearing(t, f, x)'
    BY <1>2, <1>13, <1>14 DEF Before, InvOf, Clearing
  <2>2. \A f \in Fds \ {fd}, x \in Events : Filled(t, f, x)'
    BY <1>10, <1>11, <1>12, <2>1 DEF Filled
  <2>3. \A x \in Events \ S : Filled(t, fd, x)'
    <3>1. \A x \in Events \ S : /\ ctx'[fd][x] = ctx[fd][x] /\ waiter'[fd][x] = waiter[fd][x]
                                /\ x \in m_events'[fd] <=> x \in m_events[fd]
      BY <1>3, <1>10, <1>11, <1>12
    <3>. QED
      BY <2>1, <3>1 DEF Filled
  <2>4. \A x \in S : Filled(t, fd, x)'
    <3>1. \A x \in S : x \in Events /\ ctx[fd][x] \in SUBSET Parts
      BY DEF Before, TypeOK
    <3>2. \A x \in S : ctx'[fd][x] = {} /\ x \notin m_events'[fd] /\ waiter'[fd][x] = "woken"
      BY <1>10, <1>11, <1>12, <3>1
    <3>. QED
      BY <2>1, <3>1, <3>2 DEF Filled
  <2>. QED
    BY <2>2, <2>3, <2>4
<1>20. OneLeft(t, m_events[op[t].fd])'
  BY <1>13, <1>14 DEF OneLeft
<1>21. Fresh(t)'
  <2>1. l # "poll" => events'[t] = {}
    BY <1>13, <1>14
  <2>2. \A q \in events'[t] : q \in events[t] /\ q.fd \in Fds \ {fd}
    BY <1>2, <1>3, <1>14 DEF Before, TypeOK
  <2>. QED
    BY <1>12, <1>14, <2>1, <2>2 DEF Before, InvOf, Fresh
<1>. QED
  BY <1>8, <1>15, <1>16, <1>18, <1>19, <1>20, <1>21 DEF InvOf

LEMMA Inductive ==
    ASSUME OneThread, Inv, [Next]_vars PROVE Inv'
<1>1. PICK t \in Threads : Threads = {t}
  BY IOAssumption DEF OneThread
<1>2. Before(t)
  BY <1>1 DEF Before, Inv
<1>. SUFFICES TypeOK' /\ InvOf(t)'
  BY <1>1 DEF Inv
<1>3. CASE KernelStep
  BY <1>2, <1>3, ArriveKeeps DEF KernelStep
<1>4. ASSUME AppStep(t) PROVE TypeOK' /\ InvOf(t)'
  <2>1. PICK fd \in Fds :
          \/ \E e \in Events : AddEvent(t, fd, e) \/ RunWaiter(t, fd, e)
          \/ \E kind \in AppOps, S \in SUBSET Events : StartOp(t, kind, fd, S)
    BY <1>4 DEF AppStep
  <2>. QED
    BY <1>2, <2>1, AddKeeps, RunKeeps, StartKeeps
<1>5. CASE OpStep(t)
  BY <1>2, <1>5, CtlKeeps, ApplyKeeps, TriggerKeeps, ClearKeeps DEF OpStep
<1>6. CASE IdleStep(t)
  BY <1>2, <1>6, EpollKeeps, HandleKeeps DEF IdleStep
<1>7. CASE UNCHANGED vars
  <2>1. TypeOK'
    BY <1>2, <1>7 DEF Before, TypeOK, vars, kernel
  <2>2. \A f \in Fds : Watched(t, f)'
    BY <1>2, <1>7 DEF Before, InvOf, Watched, Target, Committed, vars, kernel
  <2>3. \A f \in Fds, x \in Events : Filled(t, f, x)'
    BY <1>2, <1>7 DEF Before, InvOf, Filled, Clearing, vars
  <2>4. OneLeft(t, m_events[op[t].fd])'
    BY <1>2, <1>7 DEF Before, InvOf, OneLeft, vars
  <2>5. Fresh(t)' /\ Counted(t)'
    BY <1>2, <1>7 DEF Before, InvOf, Fresh, Counted, Registered, vars
  <2>. QED
    BY <1>2, <1>7, <2>1, <2>2, <2>3, <2>4, <2>5 DEF Before, InvOf, vars
<1>. QED
  BY <1>1, <1>3, <1>4, <1>5, <1>6, <1>7 DEF Next, Step, Over

LEMMA Initially == Init => Inv
<1>. SUFFICES ASSUME Init PROVE Inv
  OBVIOUS
<1>1. TypeOK
  <2>1. ctx \in [Fds -> [Events -> SUBSET Parts]]
        /\ waiter \in [Fds -> [Events -> {"idle", "waiting", "woken"}]]
    BY DEF Init
  <2>2. op \in [Threads -> [kind : {"none", "del", "cancel", "all"}, fd : Fds,
                            todo : SUBSET Events, new : SUBSET Events]]
    BY IOAssumption DEF Init, NoOp
  <2>3. /\ m_events \in [Fds -> SUBSET Events] /\ interest \in [Fds -> (SUBSET Events) \cup {Absent}]
        /\ ready \in [Fds -> SUBSET (Events \cup {"ERR"})]
        /\ events \in [Threads -> SUBSET [fd : Fds, events : SUBSET (Events \cup {"ERR"})]]
        /\ pc \in [Threads -> {"free", "poll", "ctl", "apply", "trigger", "clear"}]
    BY DEF Init
  <2>. QED
    BY <2>1, <2>2, <2>3, IOAssumption DEF Init, TypeOK
<1>2. \A t \in Threads : pc[t] = "free" /\ events[t] = {}
  BY DEF Init
<1>3. Registered = {}
  BY DEF Init, Registered
<1>4. ASSUME NEW t \in Threads PROVE InvOf(t)
  <2>1. \A f \in Fds : Watched(t, f)
    BY <1>2 DEF Init, Watched, Target, Committed
  <2>2. \A f \in Fds, x \in Events : Filled(t, f, x)
    BY <1>2 DEF Init, Filled, Clearing
  <2>3. OneLeft(t, m_events[op[t].fd]) /\ Fresh(t)
    BY <1>2 DEF OneLeft, Fresh
  <2>4. Counted(t)
    BY <1>2, <1>3, FS_EmptySet DEF Init, Counted
  <2>. QED
    BY <2>1, <2>2, <2>3, <2>4 DEF Init, InvOf
<1>. QED
  BY <1>1, <1>4 DEF Inv

-----------------------------------------------------------------------------
(* The theorems *)

\* The values of an IOManager with one thread stay within their types: in
\* particular m_pending_event_count, an unsigned counter, never falls below 0.
THEOREM TypeCorrect == ASSUME OneThread PROVE Spec => []TypeOK
<1>1. Inv /\ [Next]_vars => Inv'
  BY Inductive
<1>2. Inv => TypeOK
  BY DEF Inv
<1>. QED
  BY Initially, <1>1, <1>2, PTL DEF Spec

\* None of the assertions of add_event, triggerEvent and cancel_all fails.
THEOREM AssertionsHold == ASSUME OneThread PROVE Spec => []NoAssertionFails
<1>1. Inv /\ [Next]_vars => Inv'
  BY Inductive
<1>2. Inv => NoAssertionFails
  BY IOAssumption DEF Inv, InvOf, NoAssertionFails
<1>. QED
  BY Initially, <1>1, <1>2, PTL DEF Spec

\* The contexts, epoll's registrations and the waiting functions agree.
THEOREM ConsistentCorrect == ASSUME OneThread PROVE Spec => []Consistent
<1>1. Inv /\ [Next]_vars => Inv'
  BY Inductive
<1>2. ASSUME Inv, Quiet PROVE Consistent
  <2>1. PICK t \in Threads : InvOf(t) /\ pc[t] \in {"free", "poll"}
    BY <1>2, IOAssumption DEF Inv, Quiet
  <2>2. \A f \in Fds : interest[f] = IF m_events[f] = {} THEN Absent ELSE m_events[f]
    BY <2>1 DEF InvOf, Watched, Target, Committed
  <2>3. \A f \in Fds, e \in Events :
          /\ e \in m_events[f] <=> waiter[f][e] = "waiting"
          /\ ctx[f][e] = IF e \in m_events[f] THEN Parts ELSE {}
    BY <2>1 DEF InvOf, Filled, Clearing
  <2>. QED
    BY <2>2, <2>3 DEF Consistent
<1>3. Inv => Consistent
  BY <1>2 DEF Consistent
<1>. QED
  BY Initially, <1>1, <1>3, PTL DEF Spec

\* m_pending_event_count is the number of registered events.
THEOREM PendingCountCorrect == ASSUME OneThread PROVE Spec => []PendingCountExact
<1>1. Inv /\ [Next]_vars => Inv'
  BY Inductive
<1>2. Inv => PendingCountExact
  <2>. SUFFICES ASSUME Inv, Quiet PROVE m_pending_event_count = Cardinality(Registered)
    BY DEF PendingCountExact
  <2>1. PICK t \in Threads : Counted(t) /\ pc[t] \in {"free", "poll"}
    BY IOAssumption DEF Inv, InvOf, Quiet
  <2>2. Cardinality(Registered) \in Nat
    BY <2>1, FS_CardinalityType DEF Counted
  <2>. QED
    BY <2>1, <2>2 DEF Counted
<1>. QED
  BY Initially, <1>1, <1>2, PTL DEF Spec

\* An event that is registered and ready is reported by the next epoll_wait,
\* or is among the results that are being handled: no edge is lost.
THEOREM NoLostEdgeCorrect == ASSUME OneThread PROVE Spec => []NoLostEdge
<1>1. Inv /\ [Next]_vars => Inv'
  BY Inductive
<1>2. Inv => NoLostEdge
  <2>. SUFFICES ASSUME Inv, Quiet, NEW f \in Fds, m_events[f] \cap ready[f] # {}
                PROVE  f \in Reportable \/ \E t \in Threads : \E r \in events[t] : r.fd = f
    BY DEF NoLostEdge
  <2>1. PICK t \in Threads : InvOf(t) /\ pc[t] \in {"free", "poll"}
    BY IOAssumption DEF Inv, Quiet
  <2>2. /\ interest[f] = m_events[f]
        /\ f \in edge \/ \E r \in events[t] : r.fd = f
    BY <2>1 DEF InvOf, Watched, Target, Committed
  <2>3. interest[f] # Absent
    BY <2>2, AbsentApart DEF Inv, TypeOK
  <2>. QED
    BY <2>1, <2>2, <2>3 DEF Reportable, Report
<1>. QED
  BY Initially, <1>1, <1>2, PTL DEF Spec
=============================================================================
