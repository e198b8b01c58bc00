----------------------------- MODULE HookProofs -----------------------------
(***************************************************************************)
(* Theorems about the hooked calls, for every set of descriptors and       *)
(* fibers, every mix of calls and every number of them.                    *)
(***************************************************************************)
EXTENDS Hook, TLAPS, FiniteSetTheorems, FunctionTheorems, SequenceTheorems

-----------------------------------------------------------------------------
(* The task list *)

In(s, x) == \E i \in DOMAIN s : s[i] = x
AtMostOnce(s, x) == \A i, j \in DOMAIN s : s[i] = x /\ s[j] = x => i = j

\* An order of a finite set is a sequence with each element once.
LEMMA OrderOfSet ==
    ASSUME NEW S, IsFiniteSet(S), NEW q \in Orders(S), NEW T, S \subseteq T
    PROVE  /\ q \in Seq(T)
           /\ \A x : (In(q, x) <=> x \in S) /\ AtMostOnce(q, x)
<1>1. /\ Cardinality(S) \in Nat /\ q \in [1..Cardinality(S) -> S]
      /\ \A x \in S : \E i \in DOMAIN q : q[i] = x
  BY FS_CardinalityType DEF Orders
<1>2. q \in Seq(T)
  <2>1. q \in [1..Cardinality(S) -> T]
    BY <1>1
  <2>. QED
    BY <1>1, <2>1
<1>3. q \in Surjection(1..Cardinality(S), S)
  BY <1>1 DEF Surjection
<1>4. IsFiniteSet(1..Cardinality(S)) /\ Cardinality(1..Cardinality(S)) = Cardinality(S)
  <2>1. 1 \in Int /\ Cardinality(S) \in Int
    BY <1>1
  <2>2. /\ IsFiniteSet(1..Cardinality(S))
        /\ Cardinality(1..Cardinality(S)) = IF 1 > Cardinality(S) THEN 0 ELSE Cardinality(S) - 1 + 1
    BY <2>1, FS_Interval
  <2>. QED
    BY <1>1, <2>2
<1>5. q \in Injection(1..Cardinality(S), S)
  BY <1>3, <1>4, FS_SurjSameCardinalityImpliesInj
<1>6. \A i, j \in 1..Cardinality(S) : q[i] = q[j] => i = j
  BY <1>5 DEF Injection, IsInjective
<1>. QED
  BY <1>1, <1>2, <1>6 DEF In, AtMostOnce

\* A finite set has an order.
LEMMA OrderExists ==
    ASSUME NEW S, IsFiniteSet(S) PROVE \E q : q \in Orders(S)
<1>1. ExistsBijection(1..Cardinality(S), S)
  BY FS_CardinalityType
<1>2. PICK q : q \in Bijection(1..Cardinality(S), S)
  BY <1>1, Fun_ExistsBij
<1>. QED
  BY <1>2 DEF Bijection, Surjection, Injection, Orders

LEMMA InConcat ==
    ASSUME NEW T, NEW s \in Seq(T), NEW u \in Seq(T), NEW x
    PROVE  /\ s \o u \in Seq(T)
           /\ In(s \o u, x) <=> In(s, x) \/ In(u, x)
           /\ AtMostOnce(s, x) /\ AtMostOnce(u, x) /\ ~(In(s, x) /\ In(u, x))
                => AtMostOnce(s \o u, x)
<1>1. /\ s \o u \in Seq(T) /\ Len(s \o u) = Len(s) + Len(u)
      /\ \A i \in 1 .. Len(s) + Len(u) :
            (s \o u)[i] = IF i <= Len(s) THEN s[i] ELSE u[i - Len(s)]
  BY ConcatProperties
<1>2. /\ Len(s) \in Nat /\ Len(u) \in Nat /\ DOMAIN s = 1..Len(s) /\ DOMAIN u = 1..Len(u)
      /\ DOMAIN (s \o u) = 1..(Len(s) + Len(u))
  BY <1>1, LenProperties
<1>3. ASSUME In(s, x) PROVE In(s \o u, x)
  BY <1>1, <1>2, <1>3 DEF In
<1>4. ASSUME In(u, x) PROVE In(s \o u, x)
  <2>1. PICK j \in 1..Len(u) : u[j] = x
    BY <1>2, <1>4 DEF In
  <2>2. j + Len(s) \in DOMAIN (s \o u) /\ (s \o u)[j + Len(s)] = u[j]
    BY <1>1, <1>2
  <2>. QED
    BY <2>1, <2>2 DEF In
<1>5. ASSUME NEW i \in DOMAIN (s \o u), (s \o u)[i] = x
      PROVE  \/ i \in DOMAIN s /\ s[i] = x
             \/ i - Len(s) \in DOMAIN u /\ u[i - Len(s)] = x /\ i > Len(s)
  BY <1>1, <1>2, <1>5
<1>6. In(s \o u, x) => In(s, x) \/ In(u, x)
  BY <1>5 DEF In
<1>7. ASSUME AtMostOnce(s, x), AtMostOnce(u, x), ~(In(s, x) /\ In(u, x))
      PROVE  AtMostOnce(s \o u, x)
  <2>. SUFFICES ASSUME NEW i \in DOMAIN (s \o u), NEW j \in DOMAIN (s \o u),
                       (s \o u)[i] = x, (s \o u)[j] = x
                PROVE  i = j
    BY DEF AtMostOnce
  <2>1. CASE In(s, x)
    <3>1. i \in DOMAIN s /\ s[i] = x /\ j \in DOMAIN s /\ s[j] = x
      BY <1>5, <1>7, <2>1 DEF In
    <3>. QED
      BY <1>7, <3>1 DEF AtMostOnce
  <2>2. CASE ~In(s, x)
    <3>1. /\ i - Len(s) \in DOMAIN u /\ u[i - Len(s)] = x
          /\ j - Len(s) \in DOMAIN u /\ u[j - Len(s)] = x
      BY <1>5, <2>2 DEF In
    <3>2. i - Len(s) = j - Len(s)
      BY <1>7, <3>1 DEF AtMostOnce
    <3>. QED
      BY <1>2, <3>2
  <2>. QED
    BY <2>1, <2>2
<1>. QED
  BY <1>1, <1>3, <1>4, <1>6, <1>7

LEMMA InTail ==
    ASSUME NEW T, NEW s \in Seq(T), s # <<>>, NEW x
    PROVE  /\ Head(s) \in T /\ Tail(s) \in Seq(T)
           /\ In(s, x) <=> Head(s) = x \/ In(Tail(s), x)
           /\ AtMostOnce(s, x) => AtMostOnce(Tail(s), x) /\ (Head(s) = x => ~In(Tail(s), x))
<1>1. /\ Head(s) \in T /\ Tail(s) \in Seq(T) /\ Len(Tail(s)) = Len(s) - 1
      /\ \A i \in 1 .. Len(Tail(s)) : Tail(s)[i] = s[i+1]
  BY HeadTailProperties
<1>2. Len(s) \in Nat \ {0} /\ DOMAIN s = 1..Len(s) /\ DOMAIN Tail(s) = 1..(Len(s) - 1)
  BY <1>1, LenProperties, EmptySeq
<1>3. Head(s) = s[1] /\ 1 \in DOMAIN s
  BY <1>2
<1>4. \A i \in DOMAIN Tail(s) : i + 1 \in DOMAIN s /\ i + 1 # 1 /\ Tail(s)[i] = s[i + 1]
  BY <1>1, <1>2
<1>5. \A i \in DOMAIN s : i # 1 => i - 1 \in DOMAIN Tail(s) /\ Tail(s)[i - 1] = s[i]
  BY <1>1, <1>2
<1>6. In(s, x) <=> Head(s) = x \/ In(Tail(s), x)
  <2>1. ASSUME In(s, x), Head(s) # x PROVE In(Tail(s), x)
    <3>1. PICK i \in DOMAIN s : s[i] = x
      BY <2>1 DEF In
    <3>2. i # 1
      BY <1>3, <2>1, <3>1
    <3>3. i - 1 \in DOMAIN Tail(s) /\ Tail(s)[i - 1] = x
      BY <1>5, <3>1, <3>2
    <3>. QED
      BY <3>3 DEF In
  <2>2. ASSUME In(Tail(s), x) PROVE In(s, x)
    BY <1>4, <2>2 DEF In
  <2>3. ASSUME Head(s) = x PROVE In(s, x)
    BY <1>3, <2>3 DEF In
  <2>. QED
    BY <2>1, <2>2, <2>3
<1>7. ASSUME AtMostOnce(s, x)
      PROVE  AtMostOnce(Tail(s), x) /\ (Head(s) = x => ~In(Tail(s), x))
  <2>1. ASSUME NEW i \in DOMAIN Tail(s), NEW j \in DOMAIN Tail(s), Tail(s)[i] = x, Tail(s)[j] = x
        PROVE  i = j
    <3>1. i + 1 = j + 1
      BY <1>4, <1>7, <2>1 DEF AtMostOnce
    <3>. QED
      BY <1>2, <3>1
  <2>2. ASSUME Head(s) = x, NEW i \in DOMAIN Tail(s), Tail(s)[i] = x PROVE FALSE
    <3>1. 1 \in DOMAIN s /\ s[1] = x /\ i + 1 \in DOMAIN s /\ s[i + 1] = x /\ i + 1 # 1
      BY <1>2, <1>3, <1>4, <2>2
    <3>. QED
      BY <1>7, <3>1 DEF AtMostOnce
  <2>. QED
    BY <2>1, <2>2 DEF AtMostOnce, In
<1>. QED
  BY <1>1, <1>6, <1>7

LEMMA InOne ==
    ASSUME NEW T, NEW y \in T, NEW x
    PROVE  <<y>> \in Seq(T) /\ (In(<<y>>, x) <=> y = x) /\ AtMostOnce(<<y>>, x)
  BY DEF In, AtMostOnce

-----------------------------------------------------------------------------
(* Types.  Only finitely many timers exist at a time. *)

Typed == TypeOK /\ IsFiniteSet(timers) /\ IsFiniteSet(inHand)

LEMMA EventsFinite == IsFiniteSet(Fds \X Events)
<1>1. IsFiniteSet({"READ"}) /\ IsFiniteSet({"WRITE"})
  BY FS_Singleton
<1>2. IsFiniteSet({"READ"} \cup {"WRITE"})
  BY <1>1, FS_Union
<1>3. Events = {"READ"} \cup {"WRITE"}
  BY DEF Events
<1>4. IsFiniteSet(Fds) /\ IsFiniteSet(Events)
  BY <1>2, <1>3, HookAssumption
<1>. QED
  BY <1>4, FS_Product

\* The tasks of the events that are triggered together: each fiber once.
LEMMA EventTasks ==
    ASSUME NEW E \in SUBSET (Fds \X Events),
           \A x \in E : m_events[x[1]][x[2]] \in Fibers
    PROVE  \A q \in Orders(TasksOf(E)) :
                /\ q \in Seq(Task)
                /\ \A x : /\ In(q, x) <=> \E y \in E : x = FiberTask(m_events[y[1]][y[2]])
                          /\ AtMostOnce(q, x)
<1>1. IsFiniteSet(E)
  BY EventsFinite, FS_Subset
<1>2. IsFiniteSet(TasksOf(E))
  <2>. DEFINE g == [x \in E |-> FiberTask(m_events[x[1]][x[2]])]
  <2>1. g \in Surjection(E, TasksOf(E))
    BY DEF Surjection, TasksOf
  <2>. HIDE DEF g
  <2>. QED
    BY <1>1, <2>1, FS_Surjection
<1>3. TasksOf(E) \subseteq Task
  BY DEF TasksOf, Task, FiberTask
<1>4. ASSUME NEW q \in Orders(TasksOf(E))
      PROVE  /\ q \in Seq(Task)
             /\ \A x : /\ In(q, x) <=> \E y \in E : x = FiberTask(m_events[y[1]][y[2]])
                       /\ AtMostOnce(q, x)
  <2>1. q \in Seq(Task) /\ \A x : (In(q, x) <=> x \in TasksOf(E)) /\ AtMostOnce(q, x)
    BY <1>2, <1>3, OrderOfSet
  <2>. QED
    BY <2>1 DEF TasksOf
<1>. QED
  BY <1>4

\* The same for the callbacks of the timers that expired.
LEMMA TimerTasks ==
    ASSUME Typed, NEW X \in SUBSET timers
    PROVE  \A q \in Orders({CbTask(tm) : tm \in X}) :
                /\ q \in Seq(Task)
                /\ \A x : (In(q, x) <=> \E tm \in X : x = CbTask(tm)) /\ AtMostOnce(q, x)
<1>. DEFINE S == {CbTask(tm) : tm \in X}
<1>1. IsFiniteSet(X)
  BY FS_Subset DEF Typed
<1>2. S \subseteq Task
  BY DEF Typed, TypeOK, Task, CbTask
<1>3. IsFiniteSet(S)
  <2>. DEFINE g == [tm \in X |-> CbTask(tm)]
  <2>1. g \in Surjection(X, S)
    BY DEF Surjection
  <2>. HIDE DEF g, S
  <2>. QED
    BY <1>1, <2>1, FS_Surjection
<1>4. ASSUME NEW q \in Orders(S)
      PROVE  /\ q \in Seq(Task)
             /\ \A x : (In(q, x) <=> \E tm \in X : x = CbTask(tm)) /\ AtMostOnce(q, x)
  <2>1. q \in Seq(Task) /\ \A x : (In(q, x) <=> x \in S) /\ AtMostOnce(q, x)
    <3>. HIDE DEF S
    <3>. QED
      BY <1>2, <1>3, OrderOfSet
  <2>. QED
    BY <2>1
<1>. QED
  BY <1>4

\* The events that a pass of idle() or a callback triggers have a fiber.
LEMMA TriggeredHaveFibers ==
    ASSUME Typed
    PROVE  /\ \A x \in Reportable : x \in Fds \X Events /\ m_events[x[1]][x[2]] \in Fibers
           /\ \A tm \in Timer : \A x \in CancelsEvent(tm) :
                x \in Fds \X Events /\ m_events[x[1]][x[2]] \in Fibers
<1>1. \A x \in Reportable : x \in Fds \X Events /\ m_events[x[1]][x[2]] \in Fibers
  BY DEF Typed, TypeOK, Reportable
<1>2. ASSUME NEW tm \in Timer
      PROVE  \A x \in CancelsEvent(tm) : x \in Fds \X Events /\ m_events[x[1]][x[2]] \in Fibers
  BY DEF Typed, TypeOK, CancelsEvent, Timer, Locals, Events
<1>. QED
  BY <1>1, <1>2

LEMMA WithoutTyped ==
    ASSUME TypeOK, NEW E
    PROVE  /\ Without(E) \in [Fds -> [Events -> Fibers \cup {NoFiber}]]
           /\ WatchedWithout(E) \in [Fds -> SUBSET Events]
  BY DEF TypeOK, Without, WatchedWithout

LEMMA InitTasks ==
    ASSUME Init
    PROVE  /\ m_fibers \in Seq(Task)
           /\ \A x : /\ In(m_fibers, x) <=> \E f \in Fibers : x = FiberTask(f)
                     /\ AtMostOnce(m_fibers, x)
<1>. DEFINE S == {FiberTask(f) : f \in Fibers}
            g == [f \in Fibers |-> FiberTask(f)]
<1>1. g \in Surjection(Fibers, S)
  BY DEF Surjection
<1>2. S \subseteq Task
  BY DEF Task, FiberTask
<1>3. m_fibers = CHOOSE q \in Orders(S) : TRUE
  BY DEF Init
<1>4. m_fibers \in Seq(Task) /\ \A x : (In(m_fibers, x) <=> x \in S) /\ AtMostOnce(m_fibers, x)
  <2>. HIDE DEF g, S
  <2>1. IsFiniteSet(S)
    BY <1>1, HookAssumption, FS_Surjection
  <2>2. m_fibers \in Orders(S)
    BY <1>3, <2>1, OrderExists
  <2>. QED
    BY <1>2, <2>1, <2>2, OrderOfSet
<1>. QED
  BY <1>4

\* A fiber in no call has the locals of none.
LEMMA NoCallTyped == NoCall \in Locals
<1>1. (CHOOSE fd \in Fds : TRUE) \in Fds
  BY HookAssumption
<1>. QED
  BY <1>1 DEF NoCall, Locals, NotCancelled

\* A call that returns changes its own fiber only.
LEMMA Returns ==
    ASSUME TypeOK, NEW f \in Fibers, Return(f)
    PROVE  /\ pc' \in [Fibers -> PcValues] /\ loc' \in [Fibers -> Locals]
           /\ pc'[f] = "user" /\ loc'[f] = NoCall
           /\ \A g \in Fibers \ {f} : pc'[g] = pc[g] /\ loc'[g] = loc[g]
  BY NoCallTyped DEF Return, Goto, TypeOK, PcValues

LEMMA TypedInit == Init => Typed
<1>. SUFFICES ASSUME Init PROVE Typed
  OBVIOUS
<1>1. NewFdCtx(1) \in FdCtx /\ InitFdCtx(NewFdCtx(1)) \in FdCtx
  BY DEF InitFdCtx, NewFdCtx, NoCtx, FdCtx
<1>2. m_fibers \in Seq(Task)
  BY InitTasks
<1>3. loc \in [Fibers -> Locals]
  BY NoCallTyped DEF Init
<1>4. IsFiniteSet(timers) /\ IsFiniteSet(inHand)
  BY FS_EmptySet DEF Init
<1>. QED
  BY <1>1, <1>2, <1>3, <1>4, HookAssumption DEF Init, Typed, TypeOK, PcValues, Off

LEMMA CallsTyped ==
    ASSUME TypeOK, NEW f \in Fibers, NEW op, Calls(f, op)
    PROVE  /\ pc[f] = "user" /\ op \in Ops /\ calls' = [calls EXCEPT ![f] = @ + 1]
           /\ calls' \in [Fibers -> Nat]
  BY DEF TypeOK, Calls

LEMMA TypedNext == Typed /\ [Next]_vars => Typed'
<1>. SUFFICES ASSUME Typed, [Next]_vars PROVE Typed'
  OBVIOUS
<1>. USE DEF Typed, Goto, PcValues, Off
<1>1. CASE TakeFiber
  <2>1. Head(m_fibers) \in Task /\ Tail(m_fibers) \in Seq(Task)
    BY <1>1, HeadTailProperties DEF TakeFiber, TypeOK
  <2>. QED
    BY <1>1, <2>1 DEF TakeFiber, TypeOK, Task, kernel, iom, fibers
<1>2. CASE TakeCb
  <2>1. Head(m_fibers) \in Task /\ Tail(m_fibers) \in Seq(Task)
    BY <1>2, HeadTailProperties DEF TakeCb, TypeOK
  <2>2. Head(m_fibers).timer \in Timer
    BY <1>2, <2>1 DEF TakeCb, Task
  <2>3. IsFiniteSet(inHand')
    BY <1>2, FS_AddElement DEF TakeCb
  <2>. QED
    BY <1>2, <2>1, <2>2, <2>3 DEF TakeCb, TypeOK, kernel, iom, fibers
<1>3. ASSUME NEW X \in SUBSET timers, NEW E \in SUBSET Reportable, Poll(X, E)
      PROVE  Typed'
  <2>1. m_fibers' \in Seq(Task)
    <3>1. PICK q \in Orders({CbTask(tm) : tm \in X}), r \in Orders(TasksOf(E)) :
                m_fibers' = m_fibers \o q \o r
      BY <1>3 DEF Poll
    <3>2. q \in Seq(Task) /\ r \in Seq(Task)
      BY TimerTasks, EventTasks, TriggeredHaveFibers
    <3>. QED
      BY <3>1, <3>2 DEF TypeOK
  <2>2. IsFiniteSet(timers')
    BY <1>3, FS_Subset DEF Poll
  <2>3. /\ m_events' \in [Fds -> [Events -> Fibers \cup {NoFiber}]]
        /\ watched' \in [Fds -> SUBSET Events]
    BY <1>3, WithoutTyped DEF Poll
  <2>. QED
    BY <1>3, <2>1, <2>2, <2>3 DEF Poll, TypeOK, fibers
<1>4. ASSUME NEW tm \in inHand, RunCb(tm) PROVE Typed'
  <2>1. tm \in Timer /\ tm.fiber \in Fibers /\ tm.wait \in 0..2
    BY DEF TypeOK, Timer
  <2>2. m_fibers' \in Seq(Task)
    <3>1. CASE tm.sleeps
      <4>1. FiberTask(tm.fiber) \in Task
        BY <2>1 DEF FiberTask, Task
      <4>2. m_fibers' = Append(m_fibers, FiberTask(tm.fiber))
        BY <1>4, <3>1 DEF RunCb
      <4>. QED
        BY <4>1, <4>2 DEF TypeOK
    <3>2. CASE ~tm.sleeps /\ m_fibers' # m_fibers
      <4>1. PICK q \in Orders(TasksOf(CancelsEvent(tm))) : m_fibers' = m_fibers \o q
        BY <1>4, <3>2 DEF RunCb
      <4>2. q \in Seq(Task)
        <5>1. PICK E : E = CancelsEvent(tm)
          OBVIOUS
        <5>. QED
          BY <2>1, <5>1, <4>1, EventTasks, TriggeredHaveFibers
      <4>. QED
        BY <4>1, <4>2 DEF TypeOK
    <3>. QED
      BY <3>1, <3>2 DEF TypeOK
  <2>3. IsFiniteSet(inHand')
    BY <1>4, FS_Subset DEF RunCb
  <2>4. /\ m_events' \in [Fds -> [Events -> Fibers \cup {NoFiber}]]
        /\ watched' \in [Fds -> SUBSET Events]
    BY <1>4, WithoutTyped DEF RunCb, TypeOK
  <2>5. loc' \in [Fibers -> Locals]
    <3>1. loc' = loc \/ loc' = [loc EXCEPT ![tm.fiber].cancelled = tm.wait]
      BY <1>4 DEF RunCb
    <3>2. [loc[tm.fiber] EXCEPT !.cancelled = tm.wait] \in Locals
      <4>1. loc[tm.fiber] \in Locals /\ tm.wait \in 0..3
        BY <2>1 DEF TypeOK
      <4>. QED
        BY <4>1 DEF Locals
    <3>. QED
      BY <2>1, <3>1, <3>2 DEF TypeOK
  <2>. QED
    BY <1>4, <2>2, <2>3, <2>4, <2>5 DEF RunCb, TypeOK
<1>5. ASSUME NEW f \in Fibers, NEW fd \in Fds, NEW op \in IoOps,
             CallThrough(f, op, fd) \/ CallWaiting(f, op, fd)
      PROVE  Typed'
  <2>0. Calls(f, op) /\ op \in Ops
    BY <1>5 DEF CallThrough, CallWaiting, Calls
  <2>1. loc' \in [Fibers -> Locals]
    <3>1. Timed(op, fd) \in BOOLEAN
      <4>1. CASE op = "connect"
        BY <4>1 DEF Timed
      <4>2. CASE op # "connect"
        <5>1. \A ctx, type : HasTimeout(ctx, type) \in BOOLEAN
          BY DEF HasTimeout
        <5>. QED
          BY <4>2, <5>1 DEF Timed
      <4>. QED
        BY <4>1, <4>2
    <3>2. PICK b \in BOOLEAN : b = Timed(op, fd)
      BY <3>1
    <3>3. CASE CallThrough(f, op, fd)
      <4>1. [loc[f] EXCEPT !.op = op, !.fd = fd, !.gen = gen[fd]] \in Locals
        BY <2>0 DEF TypeOK, Locals
      <4>. QED
        BY <3>3, <4>1 DEF CallThrough, Begin, TypeOK
    <3>4. CASE CallWaiting(f, op, fd)
      <4>1. loc' = [loc EXCEPT ![f] = [op |-> op, fd |-> fd, timed |-> b,
                        wait |-> @.wait, cancelled |-> NotCancelled, gen |-> gen[fd]]]
        BY <3>2, <3>4 DEF CallWaiting
      <4>. QED
        BY <2>0, <4>1 DEF TypeOK, Locals, NotCancelled
    <3>. QED
      BY <1>5, <3>3, <3>4
  <2>2. calls' \in [Fibers -> Nat]
    BY <2>0, CallsTyped
  <2>. QED
    BY <1>5, <2>1, <2>2 DEF CallThrough, CallWaiting, TypeOK, kernel, iom
<1>6. ASSUME NEW f \in Fibers, Sleep(f) PROVE Typed'
  <2>1. calls' \in [Fibers -> Nat]
    BY <1>6 DEF Sleep, Calls, TypeOK
  <2>2. timers' \subseteq Timer
    <3>1. PICK n \in Nat : n = calls'[f]
      BY <2>1
    <3>2. timers' = timers \cup {[fiber |-> f, call |-> n, wait |-> 0, sleeps |-> TRUE]}
      BY <1>6, <3>1 DEF Sleep
    <3>3. [fiber |-> f, call |-> n, wait |-> 0, sleeps |-> TRUE] \in Timer
      BY DEF Timer
    <3>. QED
      BY <3>2, <3>3 DEF TypeOK
  <2>3. IsFiniteSet(timers')
    BY <1>6, FS_AddElement DEF Sleep
  <2>. QED
    BY <1>6, <2>1, <2>2, <2>3 DEF Sleep, TypeOK, kernel
<1>7. ASSUME NEW f \in Fibers, NEW fd \in Fds, Socket(f, fd) \/ Close(f, fd)
      PROVE  Typed'
  <2>0. PICK op \in Ops : Calls(f, op) /\ Begin(f, op, fd)
    BY <1>7 DEF Socket, Close, Calls
  <2>1. calls' \in [Fibers -> Nat]
    BY <2>0, CallsTyped
  <2>2. loc' \in [Fibers -> Locals]
    <3>1. [loc[f] EXCEPT !.op = op, !.fd = fd, !.gen = gen[fd]] \in Locals
      BY DEF TypeOK, Locals
    <3>. QED
      BY <2>0, <3>1 DEF Begin, TypeOK
  <2>3. gen' \in [Fds -> Nat]
    <3>1. gen' = gen \/ gen' = [gen EXCEPT ![fd] = @ + 1]
      BY <1>7 DEF Socket, Close, kernel
    <3>2. gen \in [Fds -> Nat]
      BY DEF TypeOK
    <3>. QED
      BY <3>1, <3>2
  <2>. QED
    BY <1>7, <2>1, <2>2, <2>3 DEF Socket, Close, TypeOK, kernel, iom
<1>8. ASSUME NEW f \in Fibers, NEW fd \in Fds,
             \/ InitCtx(f, fd)
             \/ \E arg \in BOOLEAN : Fcntl(f, fd, arg) \/ Ioctl(f, fd, arg)
             \/ \E type \in {"RCV", "SND"} : SetSockOpt(f, fd, type)
      PROVE  Typed'
  <2>1. calls' \in [Fibers -> Nat]
    <3>1. \E op : Calls(f, op)
      BY <1>8 DEF InitCtx, Fcntl, Ioctl, SetSockOpt
    <3>. QED
      BY <3>1, CallsTyped
  <2>2. m_datas' \in [Fds -> FdCtx]
    <3>1. \A c \in FdCtx : InitFdCtx(c) \in FdCtx
      BY DEF InitFdCtx, FdCtx
    <3>2. \A c \in FdCtx, arg \in BOOLEAN : SetUserNonblock(c, arg) \in FdCtx
      BY DEF SetUserNonblock, FdCtx
    <3>3. \A c \in FdCtx, type \in {"RCV", "SND"} : SetTimeout(c, type) \in FdCtx
      BY DEF SetTimeout, FdCtx
    <3>4. \E c \in FdCtx : m_datas' = m_datas \/ m_datas' = [m_datas EXCEPT ![fd] = c]
      <4>1. m_datas[fd] \in FdCtx
        BY DEF TypeOK
      <4>. QED
        BY <1>8, <3>1, <3>2, <3>3, <4>1 DEF InitCtx, Fcntl, Ioctl, SetSockOpt
    <3>. QED
      BY <3>4 DEF TypeOK
  <2>3. nonblock' \subseteq Fds
    BY <1>8 DEF InitCtx, Fcntl, Ioctl, SetSockOpt, SetFlag, TypeOK, kernel
  <2>. QED
    BY <1>8, <2>1, <2>2, <2>3 DEF InitCtx, Fcntl, Ioctl, SetSockOpt, TypeOK, kernel, iom
<1>9. ASSUME NEW f \in Fibers, Try(f) PROVE Typed'
  <2>1. loc[f].fd \in Fds
    BY DEF TypeOK, Locals
  <2>2. pc' \in [Fibers -> PcValues] /\ loc' \in [Fibers -> Locals]
    BY <1>9, Returns DEF Try, TypeOK
  <2>3. ready' \in [Fds -> SUBSET Events]
    <3>1. \/ ready' = ready
          \/ \E left \in SUBSET Events : ready' = [ready EXCEPT ![loc[f].fd] = left]
      BY <1>9, <2>1 DEF Try, ReadyAfter, TypeOK
    <3>. QED
      BY <2>1, <3>1 DEF TypeOK
  <2>. QED
    BY <1>9, <2>2, <2>3 DEF Try, TypeOK, iom
<1>9a. ASSUME NEW f \in Fibers, LibcReturns(f) PROVE Typed'
  <2>1. pc' \in [Fibers -> PcValues] /\ loc' \in [Fibers -> Locals]
    BY <1>9a, Returns DEF LibcReturns
  <2>2. ready' \in [Fds -> SUBSET Events]
    <3>1. loc[f].fd \in Fds
      BY DEF TypeOK, Locals
    <3>2. \E left \in SUBSET Events : ready' = [ready EXCEPT ![loc[f].fd] = left]
      BY <1>9a, <3>1 DEF LibcReturns, ReadyAfter, TypeOK
    <3>. QED
      BY <3>1, <3>2 DEF TypeOK
  <2>. QED
    BY <1>9a, <2>1, <2>2 DEF LibcReturns, TypeOK, iom
<1>10. ASSUME NEW f \in Fibers, Arm(f) PROVE Typed'
  <2>1. PICK w \in 0..2 : w = (loc[f].wait + 1) % 3
    <3>1. loc[f].wait \in 0..2
      BY DEF TypeOK, Locals
    <3>. QED
      BY <3>1
  <2>2. loc' = [loc EXCEPT ![f].wait = w]
    BY <1>10, <2>1 DEF Arm
  <2>3. loc' \in [Fibers -> Locals] /\ loc'[f].wait = w
    <3>1. PICK r \in Locals : r = [loc[f] EXCEPT !.wait = w] /\ r.wait = w
      <4>1. \A q \in Locals : [q EXCEPT !.wait = w] \in Locals /\ [q EXCEPT !.wait = w].wait = w
        BY DEF Locals
      <4>2. loc[f] \in Locals
        BY DEF TypeOK
      <4>. QED
        BY <4>1, <4>2
    <3>2. loc' = [loc EXCEPT ![f] = r]
      BY <2>2, <3>1
    <3>. QED
      BY <3>1, <3>2 DEF TypeOK
  <2>4. timers' \subseteq Timer /\ IsFiniteSet(timers')
    <3>1. PICK tm : tm = [TimerOf(f) EXCEPT !.wait = w]
      OBVIOUS
    <3>2. tm \in Timer
      BY <3>1 DEF TimerOf, Timer, TypeOK
    <3>3. timers' = timers \cup {tm} \/ timers' = timers
      BY <1>10, <2>3, <3>1 DEF Arm
    <3>4. IsFiniteSet(timers \cup {tm})
      BY FS_AddElement
    <3>. QED
      BY <3>2, <3>3, <3>4 DEF TypeOK
  <2>. QED
    BY <1>10, <2>3, <2>4 DEF Arm, TypeOK, kernel
<1>11. ASSUME NEW f \in Fibers, AddEvent(f) PROVE Typed'
  <2>1. loc[f].fd \in Fds /\ Registers(loc[f].op) \in Events
    BY DEF TypeOK, Locals, Registers, Events
  <2>2. timers' \subseteq Timer /\ IsFiniteSet(timers')
    BY <1>11, FS_Subset DEF AddEvent, CancelTimer, TypeOK
  <2>3. /\ m_events' \in [Fds -> [Events -> Fibers \cup {NoFiber}]]
        /\ watched' \in [Fds -> SUBSET Events]
    <3>1. PICK fd \in Fds, e \in Events : fd = loc[f].fd /\ e = Registers(loc[f].op)
      BY <2>1
    <3>2. \/ m_events' = m_events /\ watched' = watched
          \/ /\ m_events' = [m_events EXCEPT ![fd][e] = f]
             /\ watched' = [watched EXCEPT ![fd] = @ \cup {e}]
      BY <1>11, <3>1 DEF AddEvent
    <3>3. PICK r \in [Events -> Fibers \cup {NoFiber}] : r = [m_events[fd] EXCEPT ![e] = f]
      BY DEF TypeOK
    <3>4. \/ m_events' = m_events /\ watched' = watched
          \/ /\ m_events' = [m_events EXCEPT ![fd] = r]
             /\ watched' = [watched EXCEPT ![fd] = @ \cup {e}]
      BY <3>2, <3>3
    <3>5. m_events' \in [Fds -> [Events -> Fibers \cup {NoFiber}]]
      BY <3>4 DEF TypeOK
    <3>6. watched[fd] \cup {e} \in SUBSET Events
      BY DEF TypeOK
    <3>7. watched' \in [Fds -> SUBSET Events]
      BY <3>4, <3>6 DEF TypeOK
    <3>. QED
      BY <3>5, <3>7
  <2>4. pc' \in [Fibers -> PcValues] /\ loc' \in [Fibers -> Locals] /\ crash' \in BOOLEAN
    BY <1>11, Returns DEF AddEvent, TypeOK
  <2>. QED
    BY <1>11, <2>2, <2>3, <2>4 DEF AddEvent, TypeOK
<1>12. ASSUME NEW f \in Fibers, Resume(f) PROVE Typed'
  <2>1. timers' \subseteq Timer /\ IsFiniteSet(timers')
    BY <1>12, FS_Subset DEF Resume, CancelTimer, TypeOK
  <2>2. pc' \in [Fibers -> PcValues] /\ loc' \in [Fibers -> Locals]
    BY <1>12, Returns DEF Resume, TypeOK
  <2>. QED
    BY <1>12, <2>1, <2>2 DEF Resume, TypeOK, kernel
<1>13. ASSUME NEW f \in Fibers, Lookup(f) \/ End(f) PROVE Typed'
  <2>1. pc' \in [Fibers -> PcValues] /\ loc' \in [Fibers -> Locals]
    BY <1>13, Returns DEF Lookup, End, TypeOK
  <2>. QED
    BY <1>13, <2>1 DEF Lookup, End, TypeOK, kernel, iom
<1>14. ASSUME NEW f \in Fibers, Create(f) \/ Del(f) PROVE Typed'
  <2>1. loc[f].fd \in Fds
    BY DEF TypeOK, Locals
  <2>2. NoCtx \in FdCtx /\ NewFdCtx(gen[loc[f].fd]) \in FdCtx
    BY <2>1 DEF TypeOK, NoCtx, NewFdCtx, FdCtx
  <2>3. m_datas' \in [Fds -> FdCtx]
    BY <1>14, <2>2 DEF Create, Del, DelFdCtx, TypeOK
  <2>4. pc' \in [Fibers -> PcValues] /\ loc' \in [Fibers -> Locals]
    BY <1>14, Returns DEF Create, Del, TypeOK
  <2>. QED
    BY <1>14, <2>3, <2>4 DEF Create, Del, TypeOK, kernel, iom
<1>15. ASSUME NEW f \in Fibers, CancelAll(f) PROVE Typed'
  <2>. DEFINE fd == loc[f].fd
              T == [e \in Events |-> IF <<fd, e>> \in CancelAllEvents(fd)
                                     THEN <<FiberTask(m_events[fd][e])>> ELSE <<>>]
  <2>1. fd \in Fds
    BY DEF TypeOK, Locals
  <2>2. \A e \in Events : T[e] \in Seq(Task)
    <3>. SUFFICES ASSUME NEW e \in Events PROVE T[e] \in Seq(Task)
      OBVIOUS
    <3>1. CASE <<fd, e>> \in CancelAllEvents(fd)
      <4>1. m_events[fd][e] \in Fibers
        BY <2>1, <3>1 DEF CancelAllEvents, TypeOK
      <4>2. FiberTask(m_events[fd][e]) \in Task
        BY <4>1 DEF FiberTask, Task
      <4>. QED
        BY <3>1, <4>2
    <3>2. CASE <<fd, e>> \notin CancelAllEvents(fd)
      BY <3>2
    <3>. QED
      BY <3>1, <3>2
  <2>3. m_fibers' \in Seq(Task)
    <3>1. m_fibers' = m_fibers \o T["READ"] \o T["WRITE"]
      BY <1>15 DEF CancelAll
    <3>2. T["READ"] \in Seq(Task) /\ T["WRITE"] \in Seq(Task)
      BY <2>2 DEF Events
    <3>. HIDE DEF T
    <3>. QED
      BY <3>1, <3>2 DEF TypeOK
  <2>4. /\ m_events' \in [Fds -> [Events -> Fibers \cup {NoFiber}]]
        /\ watched' \in [Fds -> SUBSET Events]
    BY <1>15, WithoutTyped DEF CancelAll
  <2>. QED
    BY <1>15, <2>3, <2>4 DEF CancelAll, TypeOK
<1>16. ASSUME NEW f \in Fibers, CloseF(f) PROVE Typed'
  <2>1. loc[f].fd \in Fds
    BY DEF TypeOK, Locals
  <2>2. pc' \in [Fibers -> PcValues] /\ loc' \in [Fibers -> Locals]
    BY <1>16, Returns DEF CloseF
  <2>. QED
    BY <1>16, <2>1, <2>2 DEF CloseF, TypeOK, iom
<1>17. ASSUME NEW fd \in Fds, NEW e \in Events, Arrive(fd, e) PROVE Typed'
  BY <1>17 DEF Arrive, TypeOK, iom, fibers
<1>18. CASE UNCHANGED vars
  BY <1>18 DEF vars, kernel, iom, fibers, TypeOK
<1>. QED
  BY <1>1, <1>2, <1>3, <1>4, <1>5, <1>6, <1>7, <1>8, <1>9, <1>9a, <1>10, <1>11, <1>12,
     <1>13, <1>14, <1>15, <1>16, <1>17, <1>18, HookAssumption
  DEF Next, Step, UserStep, FiberStep, IdleStep, Over

\* The variables keep their types.
THEOREM TypeCorrect == Spec => []TypeOK
<1>1. Spec => []Typed
  BY TypedInit, TypedNext, PTL DEF Spec
<1>. QED
  BY <1>1, PTL DEF Typed

-----------------------------------------------------------------------------
(* Who resumes a fiber.  A fiber that holds has one wake-up call, which is  *)
(* in one place: on the task list, registered for an event, or a timer of  *)
(* sleep that runs, is listed or in the hands of a worker.                  *)

Holds == {"new", "wait", "sleep"}

IsListed(f) == In(m_fibers, FiberTask(f))
IsRegistered(f) == \E fd \in Fds, e \in Events : m_events[fd][e] = f
Pending(tm) == tm \in timers \/ tm \in inHand \/ In(m_fibers, CbTask(tm))
Sleeper(f, tm) == tm.sleeps /\ tm.fiber = f
Sleeps(f) == \E tm \in Timer : Sleeper(f, tm) /\ Pending(tm)

\* At most one place of each kind.
OneOfEach(f) ==
    /\ AtMostOnce(m_fibers, FiberTask(f))
    /\ \A fd, fd2 \in Fds, e, e2 \in Events :
            m_events[fd][e] = f /\ m_events[fd2][e2] = f => fd = fd2 /\ e = e2
    /\ \A s, t \in Timer : Sleeper(f, s) /\ Sleeper(f, t) /\ Pending(s) /\ Pending(t) => s = t

\* One kind only, and one iff the fiber holds.
OneKind(f) ==
    /\ ~(IsListed(f) /\ IsRegistered(f))
    /\ ~(IsListed(f) /\ Sleeps(f))
    /\ ~(IsRegistered(f) /\ Sleeps(f))
    /\ IsRegistered(f) => pc[f] = "wait"
    /\ pc[f] \in Holds <=> IsListed(f) \/ IsRegistered(f) \/ Sleeps(f)

\* A timer of sleep is in one place.
OnePlace(tm) ==
    tm.sleeps =>
        /\ AtMostOnce(m_fibers, CbTask(tm))
        /\ ~(tm \in timers /\ tm \in inHand)
        /\ ~(tm \in timers /\ In(m_fibers, CbTask(tm)))
        /\ ~(tm \in inHand /\ In(m_fibers, CbTask(tm)))

Woken == /\ \A f \in Fibers : OneOfEach(f) /\ OneKind(f)
         /\ \A tm \in Timer : OnePlace(tm)

TokenInv == Typed /\ Woken

LEMMA TaskForms ==
    /\ \A f, g : FiberTask(f) = FiberTask(g) => f = g
    /\ \A s, t : CbTask(s) = CbTask(t) => s = t
    /\ \A f, t : FiberTask(f) # CbTask(t)
    /\ \A f, t : FiberTask(f).kind = "fiber" /\ FiberTask(f).fiber = f
                 /\ CbTask(t).kind = "cb" /\ CbTask(t).timer = t
    /\ \A x \in Task : x.kind = "fiber" => x.fiber \in Fibers /\ x = FiberTask(x.fiber)
    /\ \A x \in Task : x.kind = "cb" => x.timer \in Timer /\ x = CbTask(x.timer)
    /\ \A f \in Fibers : FiberTask(f) \in Task
    /\ \A t \in Timer : CbTask(t) \in Task
<1>1. \A f, t : FiberTask(f).kind = "fiber" /\ FiberTask(f).fiber = f
                /\ CbTask(t).kind = "cb" /\ CbTask(t).timer = t
  BY DEF FiberTask, CbTask
<1>2. /\ \A x \in Task : x.kind = "fiber" => x.fiber \in Fibers /\ x = FiberTask(x.fiber)
      /\ \A x \in Task : x.kind = "cb" => x.timer \in Timer /\ x = CbTask(x.timer)
  BY DEF FiberTask, CbTask, Task
<1>3. /\ \A f \in Fibers : FiberTask(f) \in Task
      /\ \A t \in Timer : CbTask(t) \in Task
  BY DEF FiberTask, CbTask, Task
<1>4. /\ \A f, g : FiberTask(f) = FiberTask(g) => f = g
      /\ \A s, t : CbTask(s) = CbTask(t) => s = t
      /\ \A f, t : FiberTask(f) # CbTask(t)
  <2>1. "fiber" # "cb"
    OBVIOUS
  <2>. QED
    BY <1>1, <2>1
<1>. QED
  BY <1>1, <1>2, <1>3, <1>4

\* A step that moves no wake-up call and neither lets a fiber hold nor go on.
LEMMA WokenFrame ==
    ASSUME Woken, UNCHANGED <<m_fibers, m_events>>,
           \A tm \in Timer : tm.sleeps => (tm \in inHand' <=> tm \in inHand),
           \A tm \in Timer : tm.sleeps => (tm \in timers' <=> tm \in timers),
           \A f \in Fibers : pc'[f] = pc[f] \/ (pc[f] \notin Holds /\ pc'[f] \notin Holds)
    PROVE  Woken'
<1>1. \A tm \in Timer : tm.sleeps => (Pending(tm)' <=> Pending(tm))
  BY DEF Pending
<1>2. \A tm \in Timer : OnePlace(tm)'
  BY DEF Woken, OnePlace
<1>3. ASSUME NEW f \in Fibers PROVE OneOfEach(f)' /\ OneKind(f)'
  <2>1. /\ IsListed(f)' <=> IsListed(f)
        /\ IsRegistered(f)' <=> IsRegistered(f)
        /\ Sleeps(f)' <=> Sleeps(f)
    BY <1>1 DEF IsListed, IsRegistered, Sleeps, Sleeper
  <2>2. OneOfEach(f)'
    BY <1>1 DEF Woken, OneOfEach, Sleeper
  <2>3. OneKind(f)'
    BY <2>1 DEF Woken, OneKind, Holds
  <2>. QED
    BY <2>2, <2>3
<1>. QED
  BY <1>2, <1>3 DEF Woken

\* What triggering the events of E does to the registrations.
LEMMA WithoutEvents ==
    ASSUME TypeOK, NEW E, NEW f \in Fibers, NEW fd \in Fds, NEW e \in Events
    PROVE  Without(E)[fd][e] = f <=> m_events[fd][e] = f /\ <<fd, e>> \notin E
  BY HookAssumption DEF Without, TypeOK

\* Events of E are triggered: their fibers go from the registrations to the
\* list, and so do the callbacks of the timers of X.
LEMMA WokenTrigger ==
    ASSUME TokenInv, NEW E \in SUBSET (Fds \X Events), NEW X \in SUBSET timers,
           NEW s \in Seq(Task), m_fibers' = m_fibers \o s,
           \A f \in Fibers : /\ In(s, FiberTask(f)) <=> \E y \in E : m_events[y[1]][y[2]] = f
                             /\ AtMostOnce(s, FiberTask(f)),
           \A tm \in Timer : (In(s, CbTask(tm)) <=> tm \in X) /\ AtMostOnce(s, CbTask(tm)),
           timers' = timers \ X, m_events' = Without(E),
           \A tm \in Timer : tm.sleeps => (tm \in inHand' <=> tm \in inHand),
           \A f \in Fibers : pc'[f] = pc[f] \/ (pc[f] \notin Holds /\ pc'[f] \notin Holds)
    PROVE  Woken'
<1>. USE DEF TokenInv
<1>1. m_fibers \in Seq(Task)
  BY DEF Typed, TypeOK
<1>2. \A x : /\ In(m_fibers', x) <=> In(m_fibers, x) \/ In(s, x)
             /\ AtMostOnce(m_fibers, x) /\ AtMostOnce(s, x) /\ ~(In(m_fibers, x) /\ In(s, x))
                    => AtMostOnce(m_fibers', x)
  BY <1>1, InConcat
<1>3. ASSUME NEW tm \in Timer
      PROVE  OnePlace(tm)' /\ (tm.sleeps => (Pending(tm)' <=> Pending(tm)))
  <2>1. tm.sleeps => OnePlace(tm)
    BY DEF Woken
  <2>. QED
    BY <1>2, <2>1 DEF OnePlace, Pending
<1>4. ASSUME NEW f \in Fibers PROVE OneOfEach(f)' /\ OneKind(f)'
  <2>. DEFINE woken == \E y \in E : m_events[y[1]][y[2]] = f
  <2>1. OneOfEach(f) /\ OneKind(f)
    BY DEF Woken
  <2>2. woken => IsRegistered(f)
    BY DEF IsRegistered
  <2>3. \A fd \in Fds, e \in Events :
            m_events'[fd][e] = f <=> m_events[fd][e] = f /\ <<fd, e>> \notin E
    <3>. SUFFICES ASSUME NEW fd \in Fds, NEW e \in Events
                  PROVE  m_events'[fd][e] = f <=> m_events[fd][e] = f /\ <<fd, e>> \notin E
      OBVIOUS
    <3>1. TypeOK
      BY DEF Typed
    <3>2. Without(E)[fd][e] = f <=> m_events[fd][e] = f /\ <<fd, e>> \notin E
      BY <3>1, WithoutEvents
    <3>. QED
      BY <3>2
  <2>4. IsRegistered(f)' <=> IsRegistered(f) /\ ~woken
    <3>1. IsRegistered(f)' => IsRegistered(f)
      BY <2>3 DEF IsRegistered
    <3>2. ASSUME IsRegistered(f)', woken PROVE FALSE
      <4>1. PICK fd \in Fds, e \in Events : m_events'[fd][e] = f
        BY <3>2 DEF IsRegistered
      <4>2. PICK y \in E : m_events[y[1]][y[2]] = f
        BY <3>2
      <4>3. y[1] \in Fds /\ y[2] \in Events /\ y = <<y[1], y[2]>>
        OBVIOUS
      <4>4. m_events[fd][e] = f /\ <<fd, e>> \notin E
        BY <2>3, <4>1
      <4>5. y[1] = fd /\ y[2] = e
        BY <2>1, <4>2, <4>3, <4>4 DEF OneOfEach
      <4>. QED
        BY <4>3, <4>4, <4>5
    <3>3. ASSUME IsRegistered(f), ~woken PROVE IsRegistered(f)'
      <4>1. PICK fd \in Fds, e \in Events : m_events[fd][e] = f
        BY <3>3 DEF IsRegistered
      <4>2. <<fd, e>> \notin E
        BY <3>3, <4>1
      <4>. QED
        BY <2>3, <4>1, <4>2 DEF IsRegistered
    <3>. QED
      BY <3>1, <3>2, <3>3
  <2>5. IsListed(f)' <=> IsListed(f) \/ woken
    BY <1>2 DEF IsListed
  <2>6. Sleeps(f)' <=> Sleeps(f)
    BY <1>3 DEF Sleeps, Sleeper
  <2>7. AtMostOnce(m_fibers', FiberTask(f))
    BY <1>2, <2>1, <2>2 DEF OneOfEach, OneKind, IsListed
  <2>8. OneOfEach(f)'
    <3>1. \A s1, t \in Timer :
            Sleeper(f, s1) /\ Sleeper(f, t) /\ Pending(s1)' /\ Pending(t)' => s1 = t
      BY <1>3, <2>1 DEF OneOfEach, Sleeper
    <3>2. \A fd, fd2 \in Fds, e, e2 \in Events :
            m_events'[fd][e] = f /\ m_events'[fd2][e2] = f => fd = fd2 /\ e = e2
      <4>. SUFFICES ASSUME NEW fd \in Fds, NEW fd2 \in Fds, NEW e \in Events, NEW e2 \in Events,
                           m_events'[fd][e] = f, m_events'[fd2][e2] = f
                    PROVE  fd = fd2 /\ e = e2
        OBVIOUS
      <4>1. m_events[fd][e] = f /\ m_events[fd2][e2] = f
        BY <2>3
      <4>. QED
        BY <2>1, <4>1 DEF OneOfEach
    <3>. QED
      BY <2>7, <3>1, <3>2 DEF OneOfEach, Sleeper
  <2>9. OneKind(f)'
    <3>. HIDE DEF woken
    <3>. QED
      BY <2>1, <2>2, <2>4, <2>5, <2>6 DEF OneKind, Holds
  <2>. QED
    BY <2>8, <2>9
<1>. QED
  BY <1>3, <1>4 DEF Woken

LEMMA WokenInit == Init => Woken
<1>. SUFFICES ASSUME Init PROVE Woken
  OBVIOUS
<1>1. /\ \A f \in Fibers : In(m_fibers, FiberTask(f))
      /\ \A tm : ~In(m_fibers, CbTask(tm))
      /\ \A x : AtMostOnce(m_fibers, x)
  BY InitTasks, TaskForms
<1>2. \A tm \in Timer : ~Pending(tm)
  BY <1>1 DEF Init, Pending
<1>3. \A tm \in Timer : OnePlace(tm)
  BY <1>1 DEF OnePlace, Init
<1>4. ASSUME NEW f \in Fibers PROVE OneOfEach(f) /\ OneKind(f)
  <2>1. \A fd \in Fds, e \in Events : m_events[fd][e] # f
    BY HookAssumption DEF Init
  <2>2. ~IsRegistered(f) /\ ~Sleeps(f) /\ IsListed(f) /\ pc[f] = "new"
    BY <1>1, <1>2, <2>1 DEF IsRegistered, Sleeps, IsListed, Init
  <2>3. OneOfEach(f)
    BY <1>1, <1>2, <2>1 DEF OneOfEach
  <2>. QED
    BY <2>2, <2>3 DEF OneKind, Holds
<1>. QED
  BY <1>3, <1>4 DEF Woken

\* Fiber g gets its wake-up call, or gives it up, where it is put on the task
\* list or taken from it; nothing else moves.
LEMMA WokenTakeFiber == TokenInv /\ TakeFiber => Woken'
<1>. SUFFICES ASSUME TokenInv, TakeFiber PROVE Woken'
  OBVIOUS
<1>. USE DEF TokenInv
<1>1. /\ m_fibers \in Seq(Task) /\ m_fibers # <<>> /\ m_fibers' = Tail(m_fibers)
      /\ UNCHANGED <<m_events, timers, inHand>>
  BY DEF TakeFiber, Typed, TypeOK
<1>2. Head(m_fibers) \in Task
  BY <1>1, InTail
<1>3. PICK g \in Fibers : Head(m_fibers) = FiberTask(g)
  BY <1>2, TaskForms DEF TakeFiber
<1>4. \A x : /\ In(m_fibers, x) <=> FiberTask(g) = x \/ In(m_fibers', x)
             /\ AtMostOnce(m_fibers, x) => /\ AtMostOnce(m_fibers', x)
                                           /\ FiberTask(g) = x => ~In(m_fibers', x)
  BY <1>1, <1>3, InTail
<1>5. pc' = [pc EXCEPT ![g] = IF pc[g] = "wait" THEN "back" ELSE "user"]
  <2>1. Head(m_fibers).fiber = g
    BY <1>3, TaskForms
  <2>. QED
    BY <2>1 DEF TakeFiber, Goto
<1>6. \A tm \in Timer : /\ In(m_fibers', CbTask(tm)) <=> In(m_fibers, CbTask(tm))
                        /\ AtMostOnce(m_fibers, CbTask(tm)) => AtMostOnce(m_fibers', CbTask(tm))
  BY <1>4, TaskForms
<1>7. \A tm \in Timer : Pending(tm)' <=> Pending(tm)
  BY <1>1, <1>6 DEF Pending
<1>8. \A tm \in Timer : OnePlace(tm)'
  BY <1>1, <1>6 DEF Woken, OnePlace
<1>9. ASSUME NEW f \in Fibers PROVE OneOfEach(f)' /\ OneKind(f)'
  <2>1. OneOfEach(f) /\ OneKind(f)
    BY DEF Woken
  <2>2. /\ IsRegistered(f)' <=> IsRegistered(f)
        /\ Sleeps(f)' <=> Sleeps(f)
    BY <1>1, <1>7 DEF IsRegistered, Sleeps
  <2>3. OneOfEach(f)'
    <3>1. AtMostOnce(m_fibers', FiberTask(f))
      BY <1>4, <2>1 DEF OneOfEach
    <3>2. \A s, t \in Timer :
            Sleeper(f, s) /\ Sleeper(f, t) /\ Pending(s)' /\ Pending(t)' => s = t
      BY <1>7, <2>1 DEF OneOfEach
    <3>. QED
      BY <1>1, <2>1, <3>1, <3>2 DEF OneOfEach, Sleeper
  <2>4. CASE f = g
    <3>1. IsListed(f) /\ ~IsListed(f)'
      BY <1>4, <2>1, <2>4 DEF IsListed, OneOfEach
    <3>2. pc'[f] \notin Holds
      BY <1>5, <2>4 DEF Typed, TypeOK, Holds
    <3>. QED
      BY <2>1, <2>2, <2>3, <3>1, <3>2 DEF OneKind
  <2>5. CASE f # g
    <3>1. IsListed(f)' <=> IsListed(f)
      BY <1>4, <2>5, TaskForms DEF IsListed
    <3>2. pc'[f] = pc[f]
      BY <1>5, <2>5 DEF Typed, TypeOK
    <3>. QED
      BY <2>1, <2>2, <2>3, <3>1, <3>2 DEF OneKind
  <2>. QED
    BY <2>4, <2>5
<1>. QED
  BY <1>8, <1>9 DEF Woken

LEMMA WokenTakeCb == TokenInv /\ TakeCb => Woken'
<1>. SUFFICES ASSUME TokenInv, TakeCb PROVE Woken'
  OBVIOUS
<1>. USE DEF TokenInv
<1>1. /\ m_fibers \in Seq(Task) /\ m_fibers # <<>> /\ m_fibers' = Tail(m_fibers)
      /\ UNCHANGED <<m_events, timers, pc>>
  BY DEF TakeCb, Typed, TypeOK, fibers
<1>2. Head(m_fibers) \in Task
  BY <1>1, InTail
<1>3. PICK c \in Timer : Head(m_fibers) = CbTask(c)
  BY <1>2, TaskForms DEF TakeCb
<1>4. \A x : /\ In(m_fibers, x) <=> CbTask(c) = x \/ In(m_fibers', x)
             /\ AtMostOnce(m_fibers, x) => /\ AtMostOnce(m_fibers', x)
                                           /\ CbTask(c) = x => ~In(m_fibers', x)
  BY <1>1, <1>3, InTail
<1>5. inHand' = inHand \cup {c}
  BY <1>3, TaskForms DEF TakeCb
<1>6. \A tm \in Timer : tm.sleeps => OnePlace(tm)' /\ (Pending(tm)' <=> Pending(tm))
  <2>. SUFFICES ASSUME NEW tm \in Timer, tm.sleeps
                PROVE  OnePlace(tm)' /\ (Pending(tm)' <=> Pending(tm))
    OBVIOUS
  <2>1. OnePlace(tm)
    BY DEF Woken
  <2>2. In(m_fibers, CbTask(tm)) <=> c = tm \/ In(m_fibers', CbTask(tm))
    BY <1>4, TaskForms
  <2>3. AtMostOnce(m_fibers', CbTask(tm)) /\ (c = tm => ~In(m_fibers', CbTask(tm)))
    BY <1>4, <2>1 DEF OnePlace
  <2>. QED
    BY <1>1, <1>5, <2>1, <2>2, <2>3 DEF OnePlace, Pending
<1>7. \A tm \in Timer : OnePlace(tm)'
  BY <1>6 DEF OnePlace
<1>8. ASSUME NEW f \in Fibers PROVE OneOfEach(f)' /\ OneKind(f)'
  <2>1. OneOfEach(f) /\ OneKind(f)
    BY DEF Woken
  <2>2. /\ IsListed(f)' <=> IsListed(f)
        /\ IsRegistered(f)' <=> IsRegistered(f)
        /\ Sleeps(f)' <=> Sleeps(f)
    BY <1>1, <1>4, <1>6, TaskForms DEF IsListed, IsRegistered, Sleeps, Sleeper
  <2>3. OneOfEach(f)'
    <3>1. AtMostOnce(m_fibers', FiberTask(f))
      BY <1>4, <2>1 DEF OneOfEach
    <3>2. \A s, t \in Timer :
            Sleeper(f, s) /\ Sleeper(f, t) /\ Pending(s)' /\ Pending(t)' => s = t
      BY <1>6, <2>1 DEF OneOfEach, Sleeper
    <3>. QED
      BY <1>1, <2>1, <3>1, <3>2 DEF OneOfEach, Sleeper
  <2>4. OneKind(f)'
    BY <1>1, <2>1, <2>2 DEF OneKind
  <2>. QED
    BY <2>3, <2>4
<1>. QED
  BY <1>7, <1>8 DEF Woken

LEMMA WokenPoll ==
    ASSUME TokenInv, NEW X \in SUBSET timers, NEW E \in SUBSET Reportable, Poll(X, E)
    PROVE  Woken'
<1>. USE DEF TokenInv
<1>1. PICK q \in Orders({CbTask(tm) : tm \in X}), r \in Orders(TasksOf(E)) :
            m_fibers' = m_fibers \o q \o r
  BY DEF Poll
<1>2. /\ E \in SUBSET (Fds \X Events)
      /\ \A y \in E : m_events[y[1]][y[2]] \in Fibers
  BY TriggeredHaveFibers
<1>3. /\ q \in Seq(Task)
      /\ \A x : (In(q, x) <=> \E tm \in X : x = CbTask(tm)) /\ AtMostOnce(q, x)
  BY TimerTasks
<1>4. /\ r \in Seq(Task)
      /\ \A x : /\ In(r, x) <=> \E y \in E : x = FiberTask(m_events[y[1]][y[2]])
                /\ AtMostOnce(r, x)
  BY <1>2, EventTasks
<1>5. PICK s : s = q \o r
  OBVIOUS
<1>6. /\ s \in Seq(Task)
      /\ \A x : /\ In(s, x) <=> In(q, x) \/ In(r, x)
                /\ ~(In(q, x) /\ In(r, x)) => AtMostOnce(s, x)
  BY <1>3, <1>4, <1>5, InConcat
<1>7. m_fibers' = m_fibers \o s
  <2>1. m_fibers \in Seq(Task)
    BY DEF Typed, TypeOK
  <2>. QED
    <3>1. q \in Seq(Task) /\ r \in Seq(Task)
      BY <1>3, <1>4
    <3>2. (m_fibers \o q) \o r = m_fibers \o (q \o r)
      BY <2>1, <3>1, ConcatAssociative
    <3>3. m_fibers' = (m_fibers \o q) \o r
      BY <1>1
    <3>. QED
      BY <1>5, <3>2, <3>3
<1>8. \A f \in Fibers : /\ In(s, FiberTask(f)) <=> \E y \in E : m_events[y[1]][y[2]] = f
                        /\ AtMostOnce(s, FiberTask(f))
  BY <1>3, <1>4, <1>6, TaskForms
<1>9. \A tm \in Timer : (In(s, CbTask(tm)) <=> tm \in X) /\ AtMostOnce(s, CbTask(tm))
  BY <1>3, <1>4, <1>6, TaskForms
<1>10. /\ timers' = timers \ X /\ inHand' = inHand /\ m_events' = Without(E)
       /\ \A f \in Fibers : pc'[f] = pc[f] \/ (pc[f] \notin Holds /\ pc'[f] \notin Holds)
  BY DEF Poll, fibers
<1>. QED
  BY <1>2, <1>6, <1>7, <1>8, <1>9, <1>10, WokenTrigger

LEMMA WokenCancelAll ==
    ASSUME TokenInv, NEW f \in Fibers, CancelAll(f) PROVE Woken'
<1>. USE DEF TokenInv
<1>1. PICK fd \in Fds : fd = loc[f].fd
  BY DEF Typed, TypeOK, Locals
<1>2. PICK E : E = CancelAllEvents(fd)
  OBVIOUS
<1>3. /\ E \in SUBSET (Fds \X Events)
      /\ \A y : y \in E <=> \E e \in Events : y = <<fd, e>> /\ m_events[fd][e] \in Fibers
  BY <1>2, HookAssumption DEF CancelAllEvents, Typed, TypeOK
<1>4. PICK T : T = [e \in Events |-> IF <<fd, e>> \in E
                                     THEN <<FiberTask(m_events[fd][e])>> ELSE <<>>]
  OBVIOUS
<1>5. ASSUME NEW e \in Events
      PROVE  /\ T[e] \in Seq(Task)
             /\ \A x : /\ In(T[e], x) <=> <<fd, e>> \in E /\ x = FiberTask(m_events[fd][e])
                       /\ AtMostOnce(T[e], x)
  <2>1. CASE <<fd, e>> \in E
    <3>1. FiberTask(m_events[fd][e]) \in Task
      BY <1>3, <2>1, TaskForms
    <3>2. T[e] = <<FiberTask(m_events[fd][e])>>
      BY <1>4, <2>1
    <3>. QED
      BY <2>1, <3>1, <3>2, InOne
  <2>2. CASE <<fd, e>> \notin E
    <3>1. T[e] = <<>>
      BY <1>4, <2>2
    <3>. QED
      BY <2>2, <3>1 DEF In, AtMostOnce
  <2>. QED
    BY <2>1, <2>2
<1>6. "READ" \in Events /\ "WRITE" \in Events /\ \A e \in Events : e = "READ" \/ e = "WRITE"
  BY DEF Events
<1>7. PICK a, b, s : a = T["READ"] /\ b = T["WRITE"] /\ s = a \o b
  OBVIOUS
<1>8. /\ a \in Seq(Task) /\ b \in Seq(Task)
      /\ \A x : /\ In(a, x) <=> <<fd, "READ">> \in E /\ x = FiberTask(m_events[fd]["READ"])
                /\ In(b, x) <=> <<fd, "WRITE">> \in E /\ x = FiberTask(m_events[fd]["WRITE"])
                /\ AtMostOnce(a, x) /\ AtMostOnce(b, x)
  BY <1>5, <1>6, <1>7
<1>9. /\ s \in Seq(Task)
      /\ \A x : /\ In(s, x) <=> In(a, x) \/ In(b, x)
                /\ ~(In(a, x) /\ In(b, x)) => AtMostOnce(s, x)
  BY <1>7, <1>8, InConcat
<1>10. m_fibers' = m_fibers \o s
  <2>1. m_fibers \in Seq(Task)
    BY DEF Typed, TypeOK
  <2>2. m_fibers' = m_fibers \o a \o b
    BY <1>1, <1>2, <1>4, <1>7 DEF CancelAll
  <2>3. a \in Seq(Task) /\ b \in Seq(Task) /\ s = a \o b
    BY <1>7, <1>8
  <2>. QED
    BY <2>1, <2>2, <2>3, ConcatAssociative
<1>11. \A g \in Fibers : /\ In(s, FiberTask(g)) <=> \E y \in E : m_events[y[1]][y[2]] = g
                         /\ AtMostOnce(s, FiberTask(g))
  <2>. SUFFICES ASSUME NEW g \in Fibers
                PROVE  /\ In(s, FiberTask(g)) <=> \E y \in E : m_events[y[1]][y[2]] = g
                       /\ AtMostOnce(s, FiberTask(g))
    OBVIOUS
  <2>1. /\ In(a, FiberTask(g)) <=> <<fd, "READ">> \in E /\ m_events[fd]["READ"] = g
        /\ In(b, FiberTask(g)) <=> <<fd, "WRITE">> \in E /\ m_events[fd]["WRITE"] = g
    <3>1. \A h : FiberTask(g) = FiberTask(h) <=> g = h
      BY TaskForms
    <3>2. /\ In(a, FiberTask(g)) <=> <<fd, "READ">> \in E /\ FiberTask(g) = FiberTask(m_events[fd]["READ"])
          /\ In(b, FiberTask(g)) <=> <<fd, "WRITE">> \in E /\ FiberTask(g) = FiberTask(m_events[fd]["WRITE"])
      BY <1>8
    <3>. QED
      BY <3>1, <3>2
  <2>2. ASSUME NEW y \in E, m_events[y[1]][y[2]] = g PROVE In(s, FiberTask(g))
    <3>1. PICK e \in Events : y = <<fd, e>>
      BY <1>3
    <3>2. <<fd, e>> \in E /\ m_events[fd][e] = g
      BY <2>2, <3>1
    <3>. QED
      BY <1>6, <1>9, <2>1, <3>2
  <2>3. ASSUME In(s, FiberTask(g)) PROVE \E y \in E : m_events[y[1]][y[2]] = g
    <3>1. PICK e \in Events : <<fd, e>> \in E /\ m_events[fd][e] = g
      BY <1>6, <1>9, <2>1, <2>3
    <3>2. <<fd, e>>[1] = fd /\ <<fd, e>>[2] = e
      OBVIOUS
    <3>. QED
      BY <3>1, <3>2
  <2>4. ~(In(a, FiberTask(g)) /\ In(b, FiberTask(g)))
    <3>1. OneOfEach(g)
      BY DEF Woken
    <3>2. ~(m_events[fd]["READ"] = g /\ m_events[fd]["WRITE"] = g)
      <4>1. "READ" # "WRITE"
        OBVIOUS
      <4>. QED
        BY <1>6, <3>1, <4>1 DEF OneOfEach
    <3>. QED
      BY <2>1, <3>2
  <2>. QED
    BY <1>9, <2>2, <2>3, <2>4
<1>12. PICK X : X = {}
  OBVIOUS
<1>13. \A tm \in Timer : (In(s, CbTask(tm)) <=> tm \in X) /\ AtMostOnce(s, CbTask(tm))
  <2>1. \A tm, g : FiberTask(g) # CbTask(tm)
    BY TaskForms
  <2>2. \A tm : ~In(a, CbTask(tm)) /\ ~In(b, CbTask(tm))
    BY <1>8, <2>1
  <2>. QED
    BY <1>9, <1>12, <2>2
<1>14. /\ X \in SUBSET timers /\ timers' = timers \ X /\ inHand' = inHand /\ m_events' = Without(E)
       /\ \A g \in Fibers : pc'[g] = pc[g] \/ (pc[g] \notin Holds /\ pc'[g] \notin Holds)
  BY <1>1, <1>2, <1>12 DEF CancelAll, Goto, Holds, Typed, TypeOK
<1>. QED
  BY <1>3, <1>9, <1>10, <1>11, <1>13, <1>14, WokenTrigger

LEMMA WokenRunCb ==
    ASSUME TokenInv, NEW c \in inHand, RunCb(c) PROVE Woken'
<1>. USE DEF TokenInv
<1>1. c \in Timer /\ c.fiber \in Fibers /\ m_fibers \in Seq(Task)
  BY DEF Typed, TypeOK, Timer
<1>2. /\ inHand' = inHand \ {c} /\ UNCHANGED <<timers, pc>>
  BY DEF RunCb
<1>3. CASE c.sleeps
  <2>1. PICK g \in Fibers : g = c.fiber
    BY <1>1
  <2>2. m_fibers' = Append(m_fibers, FiberTask(g)) /\ m_events' = m_events
    BY <1>3, <2>1 DEF RunCb
  <2>3. \A x : /\ In(m_fibers', x) <=> In(m_fibers, x) \/ FiberTask(g) = x
               /\ AtMostOnce(m_fibers, x) /\ ~(In(m_fibers, x) /\ FiberTask(g) = x)
                    => AtMostOnce(m_fibers', x)
    <3>1. FiberTask(g) \in Task
      BY TaskForms
    <3>2. PICK s : s = <<FiberTask(g)>>
      OBVIOUS
    <3>3. s \in Seq(Task) /\ \A x : (In(s, x) <=> FiberTask(g) = x) /\ AtMostOnce(s, x)
      BY <3>1, <3>2, InOne
    <3>4. m_fibers' = m_fibers \o s
      BY <1>1, <2>2, <3>1, <3>2, AppendIsConcat
    <3>. QED
      BY <1>1, <3>3, <3>4, InConcat
  <2>4. Sleeper(g, c) /\ Pending(c)
    BY <1>3, <2>1 DEF Sleeper, Pending
  <2>5. ASSUME NEW tm \in Timer, tm.sleeps
        PROVE  OnePlace(tm)' /\ (Pending(tm)' <=> Pending(tm) /\ tm # c)
    <3>1. OnePlace(tm)
      BY DEF Woken
    <3>2. /\ In(m_fibers', CbTask(tm)) <=> In(m_fibers, CbTask(tm))
          /\ AtMostOnce(m_fibers, CbTask(tm)) => AtMostOnce(m_fibers', CbTask(tm))
      BY <2>3, TaskForms
    <3>. QED
      BY <1>2, <2>5, <3>1, <3>2 DEF OnePlace, Pending
  <2>6. \A tm \in Timer : OnePlace(tm)'
    BY <2>5 DEF OnePlace
  <2>7. ASSUME NEW f \in Fibers PROVE OneOfEach(f)' /\ OneKind(f)'
    <3>1. OneOfEach(f) /\ OneKind(f)
      BY DEF Woken
    <3>2. IsRegistered(f)' <=> IsRegistered(f)
      BY <2>2 DEF IsRegistered
    <3>3. \A s, t \in Timer :
            Sleeper(f, s) /\ Sleeper(f, t) /\ Pending(s)' /\ Pending(t)' => s = t
      BY <2>5, <3>1 DEF OneOfEach, Sleeper
    <3>4. CASE f = g
      <4>1. Sleeps(f) /\ ~Sleeps(f)'
        <5>1. Sleeps(f)
          BY <1>1, <2>4, <3>4 DEF Sleeps
        <5>2. ASSUME NEW tm \in Timer, Sleeper(f, tm), Pending(tm)' PROVE FALSE
          <6>1. Pending(tm) /\ tm # c
            BY <2>5, <5>2 DEF Sleeper
          <6>. QED
            BY <1>1, <2>4, <3>1, <3>4, <5>2, <6>1 DEF OneOfEach
        <5>. QED
          BY <5>1, <5>2 DEF Sleeps, Sleeper
      <4>2. ~IsListed(f) /\ IsListed(f)'
        BY <2>3, <3>1, <3>4, <4>1 DEF OneKind, IsListed
      <4>3. AtMostOnce(m_fibers', FiberTask(f))
        BY <2>3, <3>1, <4>2 DEF OneOfEach, IsListed
      <4>4. OneOfEach(f)'
        BY <2>2, <3>1, <3>3, <4>3 DEF OneOfEach, Sleeper
      <4>5. OneKind(f)'
        BY <1>2, <3>1, <3>2, <4>1, <4>2 DEF OneKind
      <4>. QED
        BY <4>4, <4>5
    <3>5. CASE f # g
      <4>1. \A tm \in Timer : Sleeper(f, tm) => (Pending(tm)' <=> Pending(tm))
        BY <2>1, <2>5, <3>5 DEF Sleeper
      <4>2. Sleeps(f)' <=> Sleeps(f)
        BY <4>1 DEF Sleeps, Sleeper
      <4>3. (IsListed(f)' <=> IsListed(f)) /\ AtMostOnce(m_fibers', FiberTask(f))
        BY <2>3, <3>1, <3>5, TaskForms DEF IsListed, OneOfEach
      <4>4. OneOfEach(f)'
        BY <2>2, <3>1, <3>3, <4>3 DEF OneOfEach, Sleeper
      <4>5. OneKind(f)'
        BY <1>2, <3>1, <3>2, <4>2, <4>3 DEF OneKind
      <4>. QED
        BY <4>4, <4>5
    <3>. QED
      BY <3>4, <3>5
  <2>. QED
    BY <2>6, <2>7 DEF Woken
<1>4. CASE ~c.sleeps /\ (~Alive(c) \/ loc[c.fiber].cancelled # NotCancelled)
  <2>1. UNCHANGED <<m_fibers, m_events>>
    BY <1>4 DEF RunCb
  <2>2. \A tm \in Timer : tm.sleeps => (tm \in inHand' <=> tm \in inHand)
    BY <1>2, <1>4
  <2>. QED
    BY <1>2, <2>1, <2>2, WokenFrame
<1>5. CASE ~c.sleeps /\ ~(~Alive(c) \/ loc[c.fiber].cancelled # NotCancelled)
  <2>1. PICK E : E = CancelsEvent(c)
    OBVIOUS
  <2>2. /\ E \in SUBSET (Fds \X Events)
        /\ \A y \in E : m_events[y[1]][y[2]] \in Fibers
    BY <1>1, <2>1, TriggeredHaveFibers
  <2>3. PICK s \in Orders(TasksOf(E)) : m_fibers' = m_fibers \o s
    BY <1>5, <2>1 DEF RunCb
  <2>4. /\ s \in Seq(Task)
        /\ \A x : /\ In(s, x) <=> \E y \in E : x = FiberTask(m_events[y[1]][y[2]])
                  /\ AtMostOnce(s, x)
    BY <2>2, EventTasks
  <2>5. \A f \in Fibers : /\ In(s, FiberTask(f)) <=> \E y \in E : m_events[y[1]][y[2]] = f
                          /\ AtMostOnce(s, FiberTask(f))
    BY <2>4, TaskForms
  <2>6. PICK X : X = {}
    OBVIOUS
  <2>7. \A tm \in Timer : (In(s, CbTask(tm)) <=> tm \in X) /\ AtMostOnce(s, CbTask(tm))
    BY <2>4, <2>6, TaskForms
  <2>8. /\ X \in SUBSET timers /\ timers' = timers \ X
        /\ \A tm \in Timer : tm.sleeps => (tm \in inHand' <=> tm \in inHand)
        /\ m_events' = Without(E)
        /\ \A g \in Fibers : pc'[g] = pc[g] \/ (pc[g] \notin Holds /\ pc'[g] \notin Holds)
    BY <1>2, <1>5, <2>1, <2>6 DEF RunCb
  <2>. QED
    BY <2>2, <2>3, <2>4, <2>5, <2>7, <2>8, WokenTrigger
<1>. QED
  BY <1>3, <1>4, <1>5

LEMMA WokenAddEvent ==
    ASSUME TokenInv, NEW g \in Fibers, AddEvent(g) PROVE Woken'
<1>. USE DEF TokenInv
<1>1. PICK fd \in Fds, e \in Events : fd = loc[g].fd /\ e = Registers(loc[g].op)
  BY DEF Typed, TypeOK, Locals, Registers, Events
<1>2. /\ pc[g] = "add" /\ UNCHANGED <<m_fibers, inHand>> /\ pc \in [Fibers -> PcValues]
  BY DEF AddEvent, Typed, TypeOK
<1>3. CASE m_events' = m_events
  <2>1. \A tm \in Timer : tm.sleeps => (tm \in timers' <=> tm \in timers)
    <3>1. timers' = timers \/ timers' = timers \ {TimerOf(g)}
      BY DEF AddEvent, CancelTimer
    <3>2. ~TimerOf(g).sleeps
      BY DEF TimerOf
    <3>. QED
      BY <3>1, <3>2
  <2>2. \A f \in Fibers : pc'[f] = pc[f] \/ (pc[f] \notin Holds /\ pc'[f] \notin Holds)
    <3>1. pc' = pc \/ pc' = [pc EXCEPT ![g] = "user"] \/ m_events' = [m_events EXCEPT ![fd][e] = g]
      BY <1>1 DEF AddEvent, Return, Goto
    <3>2. m_events' = [m_events EXCEPT ![fd][e] = g] => m_events[fd][e] = g
      BY <1>3 DEF Typed, TypeOK
    <3>3. m_events[fd][e] # g
      <4>1. ~IsRegistered(g)
        BY <1>2 DEF Woken, OneKind, Holds
      <4>. QED
        BY <4>1 DEF IsRegistered
    <3>. QED
      BY <1>2, <3>1, <3>2, <3>3 DEF Holds
  <2>. QED
    BY <1>2, <1>3, <2>1, <2>2, WokenFrame
<1>4. CASE m_events' # m_events
  <2>1. /\ m_events[fd][e] = NoFiber
        /\ m_events' = [m_events EXCEPT ![fd][e] = g]
        /\ pc' = [pc EXCEPT ![g] = "wait"] /\ timers' = timers
    BY <1>1, <1>4 DEF AddEvent, Goto
  <2>2. \A fd2 \in Fds, e2 \in Events, f \in Fibers :
            m_events'[fd2][e2] = f <=> (IF fd2 = fd /\ e2 = e THEN f = g ELSE m_events[fd2][e2] = f)
    BY <2>1 DEF Typed, TypeOK
  <2>3. \A tm \in Timer : OnePlace(tm)' /\ (Pending(tm)' <=> Pending(tm))
    BY <1>2, <2>1 DEF Woken, OnePlace, Pending
  <2>4. ~IsListed(g) /\ ~IsRegistered(g) /\ ~Sleeps(g)
    BY <1>2 DEF Woken, OneKind, Holds
  <2>5. ASSUME NEW f \in Fibers PROVE OneOfEach(f)' /\ OneKind(f)'
    <3>1. OneOfEach(f) /\ OneKind(f)
      BY DEF Woken
    <3>2. (IsListed(f)' <=> IsListed(f)) /\ (Sleeps(f)' <=> Sleeps(f))
      BY <1>2, <2>3 DEF IsListed, Sleeps
    <3>3. \A s, t \in Timer :
            Sleeper(f, s) /\ Sleeper(f, t) /\ Pending(s)' /\ Pending(t)' => s = t
      BY <2>3, <3>1 DEF OneOfEach
    <3>4. CASE f = g
      <4>1. \A fd2 \in Fds, e2 \in Events : m_events'[fd2][e2] = f <=> fd2 = fd /\ e2 = e
        BY <2>2, <2>4, <3>4 DEF IsRegistered
      <4>2. IsRegistered(f)'
        BY <4>1 DEF IsRegistered
      <4>3. OneOfEach(f)'
        BY <1>2, <3>1, <3>3, <4>1 DEF OneOfEach, Sleeper
      <4>4. OneKind(f)'
        BY <1>2, <2>1, <2>4, <3>2, <3>4, <4>2 DEF OneKind, Holds
      <4>. QED
        BY <4>3, <4>4
    <3>5. CASE f # g
      <4>1. NoFiber # f
        BY HookAssumption
      <4>2. \A fd2 \in Fds, e2 \in Events : m_events'[fd2][e2] = f <=> m_events[fd2][e2] = f
        BY <2>1, <2>2, <3>5, <4>1
      <4>3. IsRegistered(f)' <=> IsRegistered(f)
        BY <4>2 DEF IsRegistered
      <4>4. \A fd1, fd2 \in Fds, e1, e2 \in Events :
                m_events'[fd1][e1] = f /\ m_events'[fd2][e2] = f => fd1 = fd2 /\ e1 = e2
        BY <3>1, <4>2 DEF OneOfEach
      <4>5. OneOfEach(f)'
        BY <1>2, <3>1, <3>3, <4>4 DEF OneOfEach, Sleeper
      <4>6. pc'[f] = pc[f]
        BY <1>2, <2>1, <3>5
      <4>7. OneKind(f)'
        BY <3>1, <3>2, <4>3, <4>6 DEF OneKind
      <4>. QED
        BY <4>5, <4>7
    <3>. QED
      BY <3>4, <3>5
  <2>. QED
    BY <2>3, <2>5 DEF Woken
<1>. QED
  BY <1>3, <1>4

LEMMA WokenSleep ==
    ASSUME TokenInv, NEW g \in Fibers, Sleep(g) PROVE Woken'
<1>. USE DEF TokenInv
<1>1. /\ pc[g] = "user" /\ calls' \in [Fibers -> Nat]
      /\ UNCHANGED <<m_fibers, m_events, inHand>> /\ pc' = [pc EXCEPT ![g] = "sleep"]
      /\ pc \in [Fibers -> PcValues]
  BY CallsTyped DEF Sleep, Goto, Typed, TypeOK
<1>2. PICK n \in Nat : n = calls'[g]
  BY <1>1
<1>3. PICK c : c = [fiber |-> g, call |-> n, wait |-> 0, sleeps |-> TRUE]
  OBVIOUS
<1>4. timers' = timers \cup {c} /\ c \in Timer /\ c.sleeps /\ c.fiber = g
  BY <1>2, <1>3 DEF Sleep, Timer
<1>5. ~IsListed(g) /\ ~IsRegistered(g) /\ ~Sleeps(g)
  BY <1>1 DEF Woken, OneKind, Holds
<1>6. ~Pending(c)
  BY <1>4, <1>5 DEF Sleeps, Sleeper
<1>7. \A tm \in Timer : OnePlace(tm)' /\ (Pending(tm)' <=> Pending(tm) \/ tm = c)
  BY <1>1, <1>4, <1>6 DEF Woken, OnePlace, Pending
<1>8. ASSUME NEW f \in Fibers PROVE OneOfEach(f)' /\ OneKind(f)'
  <2>1. OneOfEach(f) /\ OneKind(f)
    BY DEF Woken
  <2>2. (IsListed(f)' <=> IsListed(f)) /\ (IsRegistered(f)' <=> IsRegistered(f))
    BY <1>1 DEF IsListed, IsRegistered
  <2>3. CASE f = g
    <3>1. \A tm \in Timer : Sleeper(f, tm) => (Pending(tm)' <=> tm = c)
      BY <1>5, <1>7, <2>3 DEF Sleeps
    <3>2. Sleeps(f)'
      BY <1>4, <2>3, <3>1 DEF Sleeps, Sleeper
    <3>3. \A s, t \in Timer :
            Sleeper(f, s) /\ Sleeper(f, t) /\ Pending(s)' /\ Pending(t)' => s = t
      BY <3>1
    <3>4. OneOfEach(f)'
      BY <1>1, <2>1, <3>3 DEF OneOfEach, Sleeper
    <3>5. OneKind(f)'
      BY <1>1, <1>5, <2>2, <2>3, <3>2 DEF OneKind, Holds
    <3>. QED
      BY <3>4, <3>5
  <2>4. CASE f # g
    <3>1. \A tm \in Timer : Sleeper(f, tm) => (Pending(tm)' <=> Pending(tm))
      BY <1>4, <1>7, <2>4 DEF Sleeper
    <3>2. Sleeps(f)' <=> Sleeps(f)
      BY <3>1 DEF Sleeps, Sleeper
    <3>3. \A s, t \in Timer :
            Sleeper(f, s) /\ Sleeper(f, t) /\ Pending(s)' /\ Pending(t)' => s = t
      BY <2>1, <3>1 DEF OneOfEach
    <3>4. OneOfEach(f)'
      BY <1>1, <2>1, <3>3 DEF OneOfEach, Sleeper
    <3>5. pc'[f] = pc[f]
      BY <1>1, <2>4
    <3>6. OneKind(f)'
      BY <2>1, <2>2, <3>2, <3>5 DEF OneKind
    <3>. QED
      BY <3>4, <3>6
  <2>. QED
    BY <2>3, <2>4
<1>. QED
  BY <1>7, <1>8 DEF Woken

LEMMA TokenNext == TokenInv /\ [Next]_vars => TokenInv'
<1>. SUFFICES ASSUME TokenInv, [Next]_vars PROVE Woken'
  BY TypedNext DEF TokenInv
<1>0. TypeOK /\ Woken /\ pc \in [Fibers -> PcValues]
  BY DEF TokenInv, Typed, TypeOK
<1>1. ASSUME NEW f \in Fibers, NEW fd \in Fds, NEW op \in IoOps,
             CallThrough(f, op, fd) \/ CallWaiting(f, op, fd)
      PROVE  Woken'
  <2>1. /\ pc[f] = "user" /\ UNCHANGED iom
        /\ \E l \in {"user", "libc", "try"} : pc' = [pc EXCEPT ![f] = l]
    BY <1>0, <1>1 DEF CallThrough, CallWaiting, Calls, Goto
  <2>. QED
    BY <1>0, <2>1, WokenFrame DEF iom, Holds
<1>2. ASSUME NEW f \in Fibers, NEW fd \in Fds, Socket(f, fd) \/ Close(f, fd) PROVE Woken'
  <2>1. /\ pc[f] = "user" /\ UNCHANGED iom
        /\ \E l \in {"lookup", "cancel", "closef"} : pc' = [pc EXCEPT ![f] = l]
    BY <1>2 DEF Socket, Close, Calls, Goto
  <2>. QED
    BY <1>0, <2>1, WokenFrame DEF iom, Holds
<1>3. ASSUME NEW f \in Fibers, NEW fd \in Fds,
             \/ InitCtx(f, fd)
             \/ \E arg \in BOOLEAN : Fcntl(f, fd, arg) \/ Ioctl(f, fd, arg)
             \/ \E type \in {"RCV", "SND"} : SetSockOpt(f, fd, type)
      PROVE  Woken'
  <2>1. UNCHANGED <<iom, pc>>
    BY <1>3 DEF InitCtx, Fcntl, Ioctl, SetSockOpt
  <2>. QED
    BY <1>0, <2>1, WokenFrame DEF iom
<1>4. ASSUME NEW f \in Fibers,
             \/ LibcReturns(f) \/ Try(f) \/ Lookup(f) \/ Create(f) \/ Del(f) \/ CloseF(f)
             \/ End(f)
      PROVE  Woken'
  <2>1. /\ pc[f] \in {"libc", "try", "lookup", "create", "del", "closef", "user"}
        /\ UNCHANGED iom
        /\ \E l \in {"user", "arm", "create", "closef", "done"} : pc' = [pc EXCEPT ![f] = l]
    BY <1>4 DEF LibcReturns, Try, Lookup, Create, Del, CloseF, End, Return, Goto
  <2>. QED
    BY <1>0, <2>1, WokenFrame DEF iom, Holds
<1>5. ASSUME NEW f \in Fibers, Arm(f) \/ Resume(f) PROVE Woken'
  <2>1. /\ pc[f] \in {"arm", "back"} /\ UNCHANGED <<m_events, m_fibers, inHand>>
        /\ \E l \in {"user", "add", "try"} : pc' = [pc EXCEPT ![f] = l]
    BY <1>5 DEF Arm, Resume, Return, Goto
  <2>2. \A tm \in Timer : tm.sleeps => (tm \in timers' <=> tm \in timers)
    <3>1. CASE Arm(f)
      <4>1. PICK w : w = loc'[f].wait
        OBVIOUS
      <4>. QED
        BY <3>1, <4>1 DEF Arm, TimerOf
    <3>2. CASE Resume(f)
      BY <3>2 DEF Resume, CancelTimer, TimerOf
    <3>. QED
      BY <1>5, <3>1, <3>2
  <2>. QED
    BY <1>0, <2>1, <2>2, WokenFrame DEF Holds
<1>6. CASE UNCHANGED <<iom, pc>>
  BY <1>0, <1>6, WokenFrame DEF iom
<1>7. ASSUME NEW fd \in Fds, NEW e \in Events, Arrive(fd, e) PROVE Woken'
  BY <1>6, <1>7 DEF Arrive, fibers
<1>8. CASE UNCHANGED vars
  BY <1>6, <1>8 DEF vars, fibers
<1>. QED
  BY <1>1, <1>2, <1>3, <1>4, <1>5, <1>7, <1>8, WokenTakeFiber, WokenTakeCb, WokenPoll,
     WokenRunCb, WokenAddEvent, WokenSleep, WokenCancelAll, HookAssumption
  DEF Next, Step, UserStep, FiberStep, IdleStep, Over

LEMMA OneOrNone ==
    ASSUME NEW S, NEW b \in BOOLEAN, S # {} <=> b, \A x, y \in S : x = y
    PROVE  Cardinality(S) = IF b THEN 1 ELSE 0
<1>1. CASE S = {}
  BY <1>1, FS_EmptySet
<1>2. CASE S # {}
  <2>1. PICK x : S = {x}
    BY <1>2
  <2>. QED
    BY <1>2, <2>1, FS_Singleton
<1>. QED
  BY <1>1, <1>2

\* On one worker, for which the event operations of this module are faithful,
\* and however the event, the timer, close and sleep race: a fiber that holds
\* has exactly one wake-up call, any other none.
THEOREM WokenOnceCorrect == ASSUME Workers = 1 PROVE Spec => []WokenOnce
<1>1. Init => TokenInv
  BY TypedInit, WokenInit DEF TokenInv
<1>2. TokenInv => WokenOnce
  <2>. SUFFICES ASSUME TokenInv, NEW f \in Fibers
                PROVE  Cardinality(Listed(f)) + Cardinality(Registered(f)) + Cardinality(SleepCbs(f))
                            = IF pc[f] \in {"new", "wait", "sleep"} THEN 1 ELSE 0
    BY DEF WokenOnce
  <2>1. OneOfEach(f) /\ OneKind(f) /\ m_fibers \in Seq(Task)
    BY DEF TokenInv, Woken, Typed, TypeOK
  <2>2. PICK l \in BOOLEAN, r \in BOOLEAN, t \in BOOLEAN :
            (l <=> IsListed(f)) /\ (r <=> IsRegistered(f)) /\ (t <=> Sleeps(f))
    OBVIOUS
  <2>3. Cardinality(Listed(f)) = IF l THEN 1 ELSE 0
    <3>1. (Listed(f) # {} <=> l) /\ \A x, y \in Listed(f) : x = y
      BY <2>1, <2>2 DEF Listed, IsListed, In, OneOfEach, AtMostOnce
    <3>. QED
      BY <3>1, OneOrNone
  <2>4. Cardinality(Registered(f)) = IF r THEN 1 ELSE 0
    <3>1. Registered(f) # {} <=> r
      <4>1. ASSUME NEW fd \in Fds, NEW e \in Events, m_events[fd][e] = f
            PROVE  <<fd, e>> \in Registered(f)
        BY <4>1 DEF Registered
      <4>. QED
        BY <2>2, <4>1 DEF Registered, IsRegistered
    <3>2. \A x, y \in Registered(f) : x = y
      BY <2>1 DEF Registered, OneOfEach
    <3>. QED
      BY <3>1, <3>2, OneOrNone
  <2>5. Cardinality(SleepCbs(f)) = IF t THEN 1 ELSE 0
    <3>1. \A tm : tm \in SleepCbs(f) <=> tm \in Timer /\ Sleeper(f, tm) /\ Pending(tm)
      <4>1. ASSUME NEW tm
            PROVE  (\E i \in DOMAIN m_fibers : m_fibers[i].kind = "cb" /\ m_fibers[i].timer = tm)
                        <=> tm \in Timer /\ In(m_fibers, CbTask(tm))
        <5>1. \A i \in DOMAIN m_fibers : m_fibers[i] \in Task
          BY <2>1
        <5>2. ASSUME NEW i \in DOMAIN m_fibers, m_fibers[i].kind = "cb", m_fibers[i].timer = tm
              PROVE  tm \in Timer /\ In(m_fibers, CbTask(tm))
          BY <5>1, <5>2, TaskForms DEF In
        <5>3. ASSUME In(m_fibers, CbTask(tm))
              PROVE  \E i \in DOMAIN m_fibers : m_fibers[i].kind = "cb" /\ m_fibers[i].timer = tm
          BY <5>3, TaskForms DEF In
        <5>. QED
          BY <5>2, <5>3
      <4>2. timers \subseteq Timer /\ inHand \subseteq Timer
        BY DEF TokenInv, Typed, TypeOK
      <4>. QED
        BY <4>1, <4>2 DEF SleepCbs, Sleeper, Pending
    <3>2. SleepCbs(f) # {} <=> t
      BY <2>2, <3>1 DEF Sleeps
    <3>3. \A x, y \in SleepCbs(f) : x = y
      BY <2>1, <3>1 DEF OneOfEach
    <3>. QED
      BY <3>2, <3>3, OneOrNone
  <2>. QED
    BY <2>1, <2>2, <2>3, <2>4, <2>5 DEF OneKind, Holds
<1>. QED
  BY <1>1, <1>2, TokenNext, PTL DEF Spec

-----------------------------------------------------------------------------
(* Contexts.  A number that is open has the context of its descriptor, but *)
(* for a while after it was opened and before it is closed.                *)

Opening(f) == pc[f] \in {"lookup", "create"}
Closing(f) == pc[f] \in {"cancel", "del", "closef"}
InIo(f) == pc[f] \in {"try", "arm", "add", "wait", "back"}

\* f is opening or closing a number, and its context is not there (yet or any more).
Bare(f, fd) == pc[f] \in {"lookup", "create", "closef"} /\ loc[f].fd = fd

CallFits(f) ==
    /\ Opening(f) => loc[f].op = "socket" /\ loc[f].fd \in open
    /\ Closing(f) => loc[f].op = "close" /\ loc[f].fd \in open
    /\ InIo(f) => loc[f].op \in IoOps

OneOpener ==
    \A f, g \in Fibers :
        (Opening(f) \/ Closing(f)) /\ (Opening(g) \/ Closing(g)) /\ loc[f].fd = loc[g].fd
            => f = g

Context(fd) ==
    /\ gen[fd] > 0
    /\ fd \notin open => m_datas[fd].gen = 0
    /\ \A f \in Fibers : Bare(f, fd) => m_datas[fd].gen = 0
    /\ fd \in open /\ (\A f \in Fibers : ~Bare(f, fd)) => m_datas[fd].gen = gen[fd]

CtxInv == /\ \A f \in Fibers : CallFits(f)
          /\ OneOpener
          /\ \A fd \in Fds : Context(fd)

LEMMA CtxInit == Init => CtxInv
<1>. SUFFICES ASSUME Init PROVE CtxInv
  OBVIOUS
<1>1. \A f \in Fibers : pc[f] = "new"
  BY DEF Init
<1>2. \A fd \in Fds : gen[fd] = 1 /\ fd \in open /\ m_datas[fd].gen = 1
  BY DEF Init, InitFdCtx, NewFdCtx, NoCtx
<1>. QED
  BY <1>1, <1>2 DEF CtxInv, CallFits, OneOpener, Context, Opening, Closing, InIo, Bare

\* A step that opens and closes nothing.
LEMMA CtxFrame ==
    ASSUME CtxInv, UNCHANGED <<gen, open>>,
           \A fd \in Fds : m_datas'[fd].gen = m_datas[fd].gen,
           \A f \in Fibers :
              \/ pc'[f] = pc[f] /\ loc'[f].op = loc[f].op /\ loc'[f].fd = loc[f].fd
              \/ /\ ~Opening(f) /\ ~Closing(f) /\ ~Opening(f)' /\ ~Closing(f)'
                 /\ InIo(f)' => loc'[f].op \in IoOps
              \/ /\ pc[f] = "cancel" /\ pc'[f] = "del"
                 /\ loc'[f].op = loc[f].op /\ loc'[f].fd = loc[f].fd
    PROVE  CtxInv'
<1>1. ASSUME NEW f \in Fibers
      PROVE  /\ CallFits(f)'
             /\ Opening(f)' \/ Closing(f)' => (Opening(f) \/ Closing(f)) /\ loc'[f].fd = loc[f].fd
             /\ \A fd \in Fds : Bare(f, fd)' <=> Bare(f, fd)
  <2>1. CallFits(f)
    BY DEF CtxInv
  <2>2. CASE pc'[f] = pc[f] /\ loc'[f].op = loc[f].op /\ loc'[f].fd = loc[f].fd
    BY <2>1, <2>2 DEF CallFits, Opening, Closing, InIo, Bare
  <2>3. CASE /\ ~Opening(f) /\ ~Closing(f) /\ ~Opening(f)' /\ ~Closing(f)'
             /\ InIo(f)' => loc'[f].op \in IoOps
    BY <2>3 DEF CallFits, Opening, Closing, InIo, Bare
  <2>4. CASE /\ pc[f] = "cancel" /\ pc'[f] = "del"
             /\ loc'[f].op = loc[f].op /\ loc'[f].fd = loc[f].fd
    BY <2>1, <2>4 DEF CallFits, Opening, Closing, InIo, Bare
  <2>. QED
    BY <2>2, <2>3, <2>4
<1>2. OneOpener'
  BY <1>1 DEF CtxInv, OneOpener
<1>3. \A fd \in Fds : Context(fd)'
  BY <1>1 DEF CtxInv, Context
<1>. QED
  BY <1>1, <1>2, <1>3 DEF CtxInv

\* Nobody opens or closes a number that socket gets, and nobody else one that
\* is about to be closed.
LEMMA CtxSocket ==
    ASSUME TypeOK, CtxInv, NEW g \in Fibers, NEW n \in Fds, Socket(g, n) PROVE CtxInv'
<1>1. /\ pc[g] = "user" /\ n \notin open /\ open' = open \cup {n} /\ m_datas' = m_datas
      /\ gen' = [gen EXCEPT ![n] = @ + 1]
      /\ pc' = [pc EXCEPT ![g] = "lookup"]
      /\ loc' = [loc EXCEPT ![g] = [@ EXCEPT !.op = "socket", !.fd = n, !.gen = gen[n]]]
  BY DEF Socket, Calls, Goto, Begin
<1>2. /\ pc'[g] = "lookup" /\ loc'[g].fd = n /\ loc'[g].op = "socket"
      /\ \A f \in Fibers : f # g => pc'[f] = pc[f] /\ loc'[f] = loc[f]
      /\ gen'[n] = gen[n] + 1 /\ gen[n] \in Nat
      /\ \A fd \in Fds : fd # n => gen'[fd] = gen[fd]
  BY <1>1 DEF TypeOK, Locals
<1>3. \A f \in Fibers : Opening(f) \/ Closing(f) => loc[f].fd # n
  BY <1>1 DEF CtxInv, CallFits
<1>4. \A f \in Fibers : CallFits(f)'
  BY <1>1, <1>2 DEF CtxInv, CallFits, Opening, Closing, InIo
<1>5. OneOpener'
  BY <1>2, <1>3 DEF CtxInv, OneOpener, Opening, Closing
<1>6. ASSUME NEW fd \in Fds PROVE Context(fd)'
  <2>1. Context(fd)
    BY DEF CtxInv
  <2>2. CASE fd = n
    <3>1. Bare(g, fd)'
      BY <1>2, <2>2 DEF Bare
    <3>2. gen'[fd] > 0
      BY <1>2, <2>2
    <3>. QED
      BY <1>1, <2>1, <2>2, <3>1, <3>2 DEF Context
  <2>3. CASE fd # n
    <3>1. \A f \in Fibers : Bare(f, fd)' <=> Bare(f, fd)
      BY <1>1, <1>2, <2>3 DEF Bare
    <3>. QED
      BY <1>1, <1>2, <2>1, <2>3, <3>1 DEF Context
  <2>. QED
    BY <2>2, <2>3
<1>. QED
  BY <1>4, <1>5, <1>6 DEF CtxInv

LEMMA CtxClose ==
    ASSUME TypeOK, CtxInv, NEW g \in Fibers, NEW n \in Fds, Close(g, n) PROVE CtxInv'
<1>1. /\ pc[g] = "user" /\ n \in open /\ UNCHANGED <<open, m_datas, gen>>
      /\ \A f \in Fibers : Uses(f, n) => loc[f].op \notin {"close", "socket"}
      /\ loc' = [loc EXCEPT ![g] = [@ EXCEPT !.op = "close", !.fd = n, !.gen = gen[n]]]
      /\ pc' = [pc EXCEPT ![g] = IF Exists(m_datas[n]) THEN "cancel" ELSE "closef"]
  BY DEF Close, Calls, Goto, Begin, kernel
<1>2. ASSUME NEW f \in Fibers PROVE ~((Opening(f) \/ Closing(f)) /\ loc[f].fd = n)
  <2>1. CallFits(f)
    BY DEF CtxInv
  <2>. QED
    BY <1>1, <2>1 DEF CallFits, Uses, Opening, Closing
<1>3. \A f \in Fibers : ~Bare(f, n)
  BY <1>2 DEF Bare, Opening, Closing
<1>4. Exists(m_datas[n])
  BY <1>1, <1>3 DEF CtxInv, Context, Exists
<1>5. /\ pc'[g] = "cancel" /\ loc'[g].fd = n /\ loc'[g].op = "close"
      /\ \A f \in Fibers : f # g => pc'[f] = pc[f] /\ loc'[f] = loc[f]
  BY <1>1, <1>4 DEF TypeOK, Locals
<1>6. \A f \in Fibers : CallFits(f)'
  BY <1>1, <1>5 DEF CtxInv, CallFits, Opening, Closing, InIo
<1>7. OneOpener'
  BY <1>2, <1>5 DEF CtxInv, OneOpener, Opening, Closing
<1>8. \A f \in Fibers, fd \in Fds : Bare(f, fd)' <=> Bare(f, fd)
  BY <1>1, <1>5 DEF Bare
<1>9. \A fd \in Fds : Context(fd)'
  BY <1>1, <1>8 DEF CtxInv, Context
<1>. QED
  BY <1>6, <1>7, <1>9 DEF CtxInv

\* One fiber goes on in socket or close.
LEMMA CtxOpenClose ==
    ASSUME TypeOK, CtxInv, NEW g \in Fibers,
           Lookup(g) \/ Create(g) \/ Del(g) \/ CloseF(g)
    PROVE  CtxInv'
<1>1. PICK n \in Fds : n = loc[g].fd
  BY DEF TypeOK, Locals
<1>2. /\ gen' = gen
      /\ \A f \in Fibers : f # g => pc'[f] = pc[f] /\ loc'[f] = loc[f]
      /\ pc'[g] = "user" \/ loc'[g] = loc[g]
      /\ Opening(g) \/ Closing(g)
      /\ \A fd \in Fds : fd # n => m_datas'[fd] = m_datas[fd] /\ (fd \in open' <=> fd \in open)
  <2>1. /\ \A f \in Fibers : f # g => pc'[f] = pc[f] /\ loc'[f] = loc[f]
        /\ pc'[g] = "user" \/ loc'[g] = loc[g]
    BY Returns DEF Lookup, Create, Del, CloseF, Goto, TypeOK
  <2>. QED
    BY <1>1, <2>1 DEF Lookup, Create, Del, CloseF, DelFdCtx, kernel, TypeOK, Opening, Closing
<1>3. CallFits(g) /\ Context(n) /\ n \in open
  BY <1>1, <1>2 DEF CtxInv, CallFits
<1>4. \A f \in Fibers : f # g => ~((Opening(f) \/ Closing(f)) /\ loc[f].fd = n)
  BY <1>1, <1>2 DEF CtxInv, OneOpener
<1>5. \/ pc[g] = "lookup" /\ pc'[g] = "create" /\ UNCHANGED <<open, m_datas>>
      \/ /\ pc[g] = "create" /\ pc'[g] = "user" /\ open' = open /\ m_datas'[n].gen = gen[n]
      \/ /\ pc[g] = "del" /\ pc'[g] = "closef" /\ open' = open /\ m_datas'[n].gen = 0
      \/ /\ pc[g] = "closef" /\ pc'[g] = "user" /\ open' = open \ {n} /\ m_datas' = m_datas
  <2>1. CASE Lookup(g)
    <3>1. ~Exists(m_datas[n])
      BY <1>1, <1>3, <2>1 DEF Lookup, Context, Bare, Exists
    <3>. QED
      BY <1>1, <2>1, <3>1 DEF Lookup, Goto, kernel, TypeOK
  <2>2. CASE Create(g)
    <3>1. NewFdCtx(gen[n]).gen = gen[n]
      BY DEF NewFdCtx, NoCtx
    <3>. QED
      BY <1>1, <2>2, <3>1 DEF Create, Return, Goto, kernel, TypeOK
  <2>3. CASE Del(g)
    <3>1. NoCtx.gen = 0
      BY DEF NoCtx
    <3>. QED
      BY <1>1, <2>3, <3>1 DEF Del, DelFdCtx, Goto, kernel, TypeOK
  <2>4. CASE CloseF(g)
    BY <1>1, <2>4 DEF CloseF, Return, Goto, TypeOK
  <2>. QED
    BY <2>1, <2>2, <2>3, <2>4
<1>6. \A f \in Fibers : CallFits(f)'
  <2>1. CallFits(g)'
    BY <1>1, <1>2, <1>3, <1>5 DEF CallFits, Opening, Closing, InIo
  <2>2. ASSUME NEW f \in Fibers, f # g PROVE CallFits(f)'
    <3>1. CallFits(f) /\ loc[f].fd \in Fds
      BY DEF CtxInv, TypeOK, Locals
    <3>. QED
      BY <1>2, <1>4, <2>2, <3>1 DEF CallFits, Opening, Closing, InIo
  <2>. QED
    BY <2>1, <2>2
<1>7. OneOpener'
  BY <1>2, <1>4 DEF CtxInv, OneOpener, Opening, Closing
<1>8. ASSUME NEW fd \in Fds PROVE Context(fd)'
  <2>1. Context(fd)
    BY DEF CtxInv
  <2>2. CASE fd # n
    <3>1. \A f \in Fibers : Bare(f, fd)' <=> Bare(f, fd)
      BY <1>1, <1>2, <2>2 DEF Bare
    <3>. QED
      BY <1>2, <2>1, <2>2, <3>1 DEF Context
  <2>3. CASE fd = n
    <3>1. \A f \in Fibers : f # g => ~Bare(f, n) /\ ~Bare(f, n)'
      BY <1>2, <1>4 DEF Bare, Opening, Closing
    <3>2. Bare(g, n) <=> pc[g] \in {"lookup", "create", "closef"}
      BY <1>1 DEF Bare
    <3>3. Bare(g, n)' <=> pc'[g] \in {"lookup", "create", "closef"}
      BY <1>1, <1>2 DEF Bare
    <3>. QED
      BY <1>2, <1>3, <1>5, <2>3, <3>1, <3>2, <3>3 DEF Context
  <2>. QED
    BY <2>2, <2>3
<1>. QED
  BY <1>6, <1>7, <1>8 DEF CtxInv

\* The options of a descriptor are not what its context is for.
LEMMA OptionsKeepGen ==
    ASSUME TypeOK, NEW g \in Fibers, NEW n \in Fds,
           \/ InitCtx(g, n)
           \/ \E arg \in BOOLEAN : Fcntl(g, n, arg) \/ Ioctl(g, n, arg)
           \/ \E type \in {"RCV", "SND"} : SetSockOpt(g, n, type)
    PROVE  /\ \A fd \in Fds : m_datas'[fd].gen = m_datas[fd].gen
           /\ UNCHANGED <<gen, open, pc, loc>>
<1>1. m_datas[n] \in FdCtx
  BY DEF TypeOK
<1>2. /\ InitFdCtx(m_datas[n]).gen = m_datas[n].gen
      /\ \A arg \in BOOLEAN : SetUserNonblock(m_datas[n], arg).gen = m_datas[n].gen
      /\ \A type \in {"RCV", "SND"} : SetTimeout(m_datas[n], type).gen = m_datas[n].gen
  BY <1>1 DEF InitFdCtx, SetUserNonblock, SetTimeout, FdCtx
<1>3. \/ m_datas' = m_datas
      \/ \E c : m_datas' = [m_datas EXCEPT ![n] = c] /\ c.gen = m_datas[n].gen
  BY <1>2 DEF InitCtx, Fcntl, Ioctl, SetSockOpt
<1>4. UNCHANGED <<gen, open, pc, loc>>
  BY DEF InitCtx, Fcntl, Ioctl, SetSockOpt, kernel
<1>. QED
  BY <1>3, <1>4 DEF TypeOK

\* A listed fiber holds.
LEMMA TakenHolds ==
    ASSUME TokenInv, TakeFiber
    PROVE  \E g \in Fibers :
                /\ Head(m_fibers) = FiberTask(g) /\ pc[g] \in Holds
                /\ pc' = [pc EXCEPT ![g] = IF pc[g] = "wait" THEN "back" ELSE "user"]
<1>1. m_fibers \in Seq(Task) /\ m_fibers # <<>> /\ Head(m_fibers).kind = "fiber"
  BY DEF TakeFiber, TokenInv, Typed, TypeOK
<1>2. Head(m_fibers) \in Task /\ In(m_fibers, Head(m_fibers))
  BY <1>1, InTail
<1>3. PICK g \in Fibers : Head(m_fibers) = FiberTask(g)
  BY <1>1, <1>2, TaskForms
<1>4. Head(m_fibers).fiber = g
  BY <1>3, TaskForms
<1>5. pc' = [pc EXCEPT ![g] = IF pc[g] = "wait" THEN "back" ELSE "user"]
  BY <1>4 DEF TakeFiber, Goto
<1>6. IsListed(g)
  BY <1>2, <1>3 DEF IsListed
<1>7. pc[g] \in Holds
  BY <1>6 DEF TokenInv, Woken, OneKind
<1>. QED
  BY <1>3, <1>5, <1>7

LEMMA CtxNext == TokenInv /\ CtxInv /\ [Next]_vars => CtxInv'
<1>. SUFFICES ASSUME TokenInv, CtxInv, [Next]_vars PROVE CtxInv'
  OBVIOUS
<1>0. TypeOK /\ pc \in [Fibers -> PcValues] /\ loc \in [Fibers -> Locals]
  BY DEF TokenInv, Typed, TypeOK
<1>. USE DEF Opening, Closing, InIo
<1>1. CASE TakeFiber
  <2>1. UNCHANGED <<m_datas, gen, open, loc>>
    BY <1>1 DEF TakeFiber, kernel
  <2>2. PICK g \in Fibers : /\ pc[g] \in Holds
                            /\ pc' = [pc EXCEPT ![g] = IF pc[g] = "wait" THEN "back" ELSE "user"]
    BY <1>1, TakenHolds
  <2>3. pc[g] = "wait" => loc[g].op \in IoOps
    BY DEF CtxInv, CallFits
  <2>. QED
    BY <1>0, <2>1, <2>2, <2>3, CtxFrame DEF Holds
<1>2. CASE UNCHANGED <<m_datas, gen, open, pc, loc>>
  BY <1>2, CtxFrame
<1>3. CASE TakeCb
  BY <1>2, <1>3 DEF TakeCb, kernel, fibers
<1>4. ASSUME NEW X \in SUBSET timers, NEW E \in SUBSET Reportable, Poll(X, E) PROVE CtxInv'
  BY <1>2, <1>4 DEF Poll, fibers
<1>5. ASSUME NEW tm \in inHand, RunCb(tm) PROVE CtxInv'
  <2>1. UNCHANGED <<m_datas, gen, open, pc>>
    BY <1>5 DEF RunCb
  <2>2. loc' = loc \/ loc' = [loc EXCEPT ![tm.fiber].cancelled = tm.wait]
    BY <1>5 DEF RunCb
  <2>3. \A f \in Fibers : loc'[f].op = loc[f].op /\ loc'[f].fd = loc[f].fd
    BY <1>0, <2>2 DEF Locals
  <2>. QED
    BY <2>1, <2>3, CtxFrame
<1>6. ASSUME NEW f \in Fibers, NEW fd \in Fds, NEW op \in IoOps,
             CallThrough(f, op, fd) \/ CallWaiting(f, op, fd)
      PROVE  CtxInv'
  <2>1. CASE CallThrough(f, op, fd)
    <3>1. /\ pc[f] = "user" /\ UNCHANGED <<m_datas, gen, open>>
          /\ \E l \in {"user", "libc"} : pc' = [pc EXCEPT ![f] = l]
          /\ \A g \in Fibers : g # f => loc'[g] = loc[g]
      BY <1>0, <2>1 DEF CallThrough, Calls, Begin, Goto, kernel
    <3>. QED
      BY <1>0, <3>1, CtxFrame
  <2>2. CASE CallWaiting(f, op, fd)
    <3>1. /\ pc[f] = "user" /\ UNCHANGED <<m_datas, gen, open>>
          /\ pc' = [pc EXCEPT ![f] = "try"]
          /\ loc'[f].op = op /\ \A g \in Fibers : g # f => loc'[g] = loc[g]
      BY <1>0, <2>2 DEF CallWaiting, Calls, Goto, kernel
    <3>. QED
      BY <1>0, <3>1, CtxFrame
  <2>. QED
    BY <1>6, <2>1, <2>2
<1>7. ASSUME NEW f \in Fibers,
             \/ LibcReturns(f) \/ Try(f) \/ Arm(f) \/ AddEvent(f) \/ Resume(f) \/ Sleep(f)
             \/ End(f)
      PROVE  CtxInv'
  <2>1. /\ pc[f] \in {"libc", "try", "arm", "add", "back", "user"}
        /\ UNCHANGED <<m_datas, gen, open>>
        /\ \/ pc' = pc
           \/ pc[f] \notin {"libc", "user"} /\ \E l \in {"arm", "add", "wait", "try"} : pc' = [pc EXCEPT ![f] = l]
           \/ \E l \in {"user", "sleep", "done"} : pc' = [pc EXCEPT ![f] = l]
    BY <1>7 DEF LibcReturns, Try, Arm, AddEvent, Resume, Sleep, End, Calls, Return, Goto, kernel
  <2>2. \A g \in Fibers : \/ g = f /\ pc'[f] = "user"
                          \/ loc'[g].op = loc[g].op /\ loc'[g].fd = loc[g].fd
    <3>1. \/ loc' = loc \/ \E w : loc' = [loc EXCEPT ![f].wait = w]
          \/ Return(f)
      BY <1>7 DEF LibcReturns, Try, Arm, AddEvent, Resume, Sleep, End
    <3>2. CASE Return(f)
      BY <1>0, <3>2, Returns
    <3>. QED
      BY <1>0, <3>1, <3>2 DEF Locals
  <2>3. CallFits(f)
    BY DEF CtxInv
  <2>. QED
    BY <1>0, <2>1, <2>2, <2>3, CtxFrame DEF CallFits
<1>8. ASSUME NEW f \in Fibers, CancelAll(f) PROVE CtxInv'
  <2>1. /\ UNCHANGED <<m_datas, gen, open, loc>> /\ pc[f] = "cancel"
        /\ pc' = [pc EXCEPT ![f] = "del"]
    BY <1>8 DEF CancelAll, Goto
  <2>. QED
    BY <1>0, <2>1, CtxFrame
<1>9. ASSUME NEW f \in Fibers, NEW fd \in Fds,
             \/ InitCtx(f, fd)
             \/ \E arg \in BOOLEAN : Fcntl(f, fd, arg) \/ Ioctl(f, fd, arg)
             \/ \E type \in {"RCV", "SND"} : SetSockOpt(f, fd, type)
      PROVE  CtxInv'
  BY <1>0, <1>9, OptionsKeepGen, CtxFrame
<1>10. ASSUME NEW fd \in Fds, NEW e \in Events, Arrive(fd, e) PROVE CtxInv'
  BY <1>2, <1>10 DEF Arrive, fibers
<1>11. CASE UNCHANGED vars
  BY <1>2, <1>11 DEF vars, kernel, fibers
<1>. QED
  BY <1>0, <1>1, <1>3, <1>4, <1>5, <1>6, <1>7, <1>8, <1>9, <1>10, <1>11, CtxSocket, CtxClose,
     CtxOpenClose, HookAssumption
  DEF Next, Step, UserStep, FiberStep, IdleStep, Over

\* close deletes the context before the number is free, with any number of
\* workers: a descriptor never has the context of an earlier one.
THEOREM FreshContextCorrect == Spec => []FreshContext
<1>1. Init => TokenInv /\ CtxInv
  BY TypedInit, WokenInit, CtxInit DEF TokenInv
<1>2. TokenInv /\ CtxInv => FreshContext
  <2>. SUFFICES ASSUME TokenInv, CtxInv, NEW fd \in open, Exists(m_datas[fd])
                PROVE  m_datas[fd].gen = gen[fd]
    BY DEF FreshContext
  <2>1. Context(fd)
    BY DEF TokenInv, Typed, TypeOK, CtxInv
  <2>. QED
    BY <2>1 DEF Context, Exists
<1>. QED
  BY <1>1, <1>2, TokenNext, CtxNext, PTL DEF Spec

-----------------------------------------------------------------------------
(* Non-blocking descriptors. *)

\* A socket's context says that the system needs the flag, and the flag is set.
FlagSet(fd) ==
    LET c == m_datas[fd]
    IN  /\ c.m_isInit = c.m_isSocket
        /\ c.m_isSocket => c.gen # 0 /\ c.m_sys_nonblock /\ fd \in nonblock

\* A call that may hold was made for a descriptor that is such a socket, until
\* close has deleted its context.
MadeNonblocking(f) ==
    InIo(f) =>
        LET fd == loc[f].fd
        IN  /\ loc[f].gen <= gen[fd]
            /\ loc[f].gen = gen[fd] /\ fd \in open =>
                    /\ fd \in nonblock
                    /\ m_datas[fd].m_isSocket \/ \E g \in Fibers : pc[g] = "closef" /\ loc[g].fd = fd

FlagInv == (\A fd \in Fds : FlagSet(fd)) /\ (\A f \in Fibers : MadeNonblocking(f))

\* A step after which each fiber is in the same call or in none that waits.
LEMMA FlagFrame ==
    ASSUME TypeOK, FlagInv, UNCHANGED <<m_datas, gen, open, nonblock>>,
           \A f \in Fibers : InIo(f)' =>
                InIo(f) /\ loc'[f].fd = loc[f].fd /\ loc'[f].gen = loc[f].gen,
           \A f \in Fibers : pc[f] = "closef" => pc'[f] = "closef" /\ loc'[f].fd = loc[f].fd
    PROVE  FlagInv'
<1>1. \A fd \in Fds : FlagSet(fd)'
  BY DEF FlagInv, FlagSet
<1>2. ASSUME NEW f \in Fibers, InIo(f)' PROVE MadeNonblocking(f)'
  <2>1. /\ InIo(f) /\ MadeNonblocking(f)
        /\ loc'[f].fd = loc[f].fd /\ loc'[f].gen = loc[f].gen
    BY <1>2 DEF FlagInv
  <2>. QED
    BY <2>1 DEF MadeNonblocking
<1>. QED
  BY <1>1, <1>2 DEF FlagInv, MadeNonblocking

LEMMA FlagInit == Init => FlagInv
<1>. SUFFICES ASSUME Init PROVE FlagInv
  OBVIOUS
<1>1. ASSUME NEW fd \in Fds PROVE FlagSet(fd)
  <2>1. CASE fd \in Managed
    <3>1. ~NewFdCtx(1).m_isInit /\ NewFdCtx(1).gen = 1
      BY DEF NewFdCtx, NoCtx
    <3>2. PICK c : c = InitFdCtx(NewFdCtx(1))
      OBVIOUS
    <3>3. c.m_isInit = TRUE /\ c.m_isSocket = TRUE /\ c.m_sys_nonblock = TRUE /\ c.gen = 1
      BY <3>1, <3>2 DEF InitFdCtx
    <3>4. m_datas[fd] = c /\ fd \in nonblock
      BY <2>1, <3>2 DEF Init
    <3>5. m_datas[fd].m_isInit = m_datas[fd].m_isSocket
      BY <3>3, <3>4
    <3>6. m_datas[fd].gen # 0 /\ m_datas[fd].m_sys_nonblock
      BY <3>3, <3>4
    <3>. QED
      BY <3>4, <3>5, <3>6 DEF FlagSet
  <2>2. CASE fd \notin Managed
    BY <2>2 DEF Init, NewFdCtx, NoCtx, FlagSet
  <2>. QED
    BY <2>1, <2>2
<1>2. \A f \in Fibers : pc[f] = "new"
  BY DEF Init
<1>. QED
  BY <1>1, <1>2 DEF FlagInv, MadeNonblocking, InIo

\* init, fcntl, ioctl and setsockopt on descriptor n.
LEMMA FlagOptions ==
    ASSUME TypeOK, CtxInv, FlagInv, NEW g \in Fibers, NEW n \in Fds,
           \/ InitCtx(g, n)
           \/ \E arg \in BOOLEAN : Fcntl(g, n, arg)
           \/ Ioctl(g, n, TRUE)
           \/ \E type \in {"RCV", "SND"} : SetSockOpt(g, n, type)
    PROVE  FlagInv'
<1>1. UNCHANGED <<gen, open, pc, loc>> /\ m_datas[n] \in FdCtx
  BY DEF InitCtx, Fcntl, Ioctl, SetSockOpt, kernel, TypeOK
<1>2. FlagSet(n) /\ Context(n)
  BY DEF FlagInv, CtxInv
<1>3. \A fd \in Fds : fd # n => m_datas'[fd] = m_datas[fd] /\ (fd \in nonblock' <=> fd \in nonblock)
  BY DEF InitCtx, Fcntl, Ioctl, SetSockOpt, SetFlag, kernel, TypeOK
<1>4. /\ FlagSet(n)'
      /\ m_datas[n].m_isSocket => m_datas'[n].m_isSocket
      /\ m_datas[n].m_isSocket => n \in nonblock'
  <2>1. CASE InitCtx(g, n)
    <3>1. m_datas'[n] = InitFdCtx(m_datas[n])
      BY <2>1 DEF InitCtx, TypeOK
    <3>2. m_datas[n].gen # 0
      BY <2>1 DEF InitCtx, Exists
    <3>3. CASE m_datas[n].m_isInit
      <4>1. m_datas'[n] = m_datas[n] /\ nonblock' = nonblock
        BY <2>1, <3>1, <3>3 DEF InitCtx, InitFdCtx
      <4>. QED
        BY <1>2, <4>1 DEF FlagSet
    <3>4. CASE ~m_datas[n].m_isInit
      <4>1. /\ m_datas'[n].m_isInit = TRUE /\ m_datas'[n].m_isSocket = TRUE
            /\ m_datas'[n].m_sys_nonblock = TRUE /\ m_datas'[n].gen # 0
        BY <3>1, <3>2, <3>4 DEF InitFdCtx
      <4>2. n \in nonblock'
        BY <2>1, <3>4 DEF InitCtx, SetFlag
      <4>. QED
        BY <4>1, <4>2 DEF FlagSet
    <3>. QED
      BY <3>3, <3>4
  <2>2. ASSUME m_datas'[n].m_isInit = m_datas[n].m_isInit,
               m_datas'[n].m_isSocket = m_datas[n].m_isSocket,
               m_datas'[n].m_sys_nonblock = m_datas[n].m_sys_nonblock,
               m_datas'[n].gen = m_datas[n].gen,
               m_datas[n].m_isSocket => n \in nonblock'
        PROVE  /\ FlagSet(n)'
               /\ m_datas[n].m_isSocket => m_datas'[n].m_isSocket
               /\ m_datas[n].m_isSocket => n \in nonblock'
    BY <1>2, <2>2 DEF FlagSet
  <2>3. ASSUME NEW arg \in BOOLEAN, Fcntl(g, n, arg) \/ (arg = TRUE /\ Ioctl(g, n, arg))
        PROVE  /\ m_datas'[n].m_isInit = m_datas[n].m_isInit
               /\ m_datas'[n].m_isSocket = m_datas[n].m_isSocket
               /\ m_datas'[n].m_sys_nonblock = m_datas[n].m_sys_nonblock
               /\ m_datas'[n].gen = m_datas[n].gen
               /\ m_datas[n].m_isSocket => n \in nonblock'
    <3>1. m_datas'[n] = m_datas[n] \/ m_datas'[n] = SetUserNonblock(m_datas[n], arg)
      BY <2>3 DEF Fcntl, Ioctl, TypeOK
    <3>2. /\ m_datas'[n].m_isInit = m_datas[n].m_isInit
          /\ m_datas'[n].m_isSocket = m_datas[n].m_isSocket
          /\ m_datas'[n].m_sys_nonblock = m_datas[n].m_sys_nonblock
          /\ m_datas'[n].gen = m_datas[n].gen
      BY <1>1, <3>1 DEF SetUserNonblock, FdCtx
    <3>3. ASSUME m_datas[n].m_isSocket PROVE n \in nonblock'
      <4>1. Known(n) /\ m_datas[n].m_sys_nonblock
        BY <1>2, <3>3 DEF FlagSet, Known, Exists
      <4>. QED
        BY <2>3, <4>1 DEF Fcntl, Ioctl, SetFlag, SysFlag
    <3>. QED
      BY <3>2, <3>3
  <2>4. ASSUME NEW type \in {"RCV", "SND"}, SetSockOpt(g, n, type)
        PROVE  /\ m_datas'[n].m_isInit = m_datas[n].m_isInit
               /\ m_datas'[n].m_isSocket = m_datas[n].m_isSocket
               /\ m_datas'[n].m_sys_nonblock = m_datas[n].m_sys_nonblock
               /\ m_datas'[n].gen = m_datas[n].gen
               /\ m_datas[n].m_isSocket => n \in nonblock'
    <3>1. m_datas'[n] = m_datas[n] \/ m_datas'[n] = SetTimeout(m_datas[n], type)
      BY <2>4 DEF SetSockOpt, TypeOK
    <3>2. nonblock' = nonblock
      BY <2>4 DEF SetSockOpt, kernel
    <3>3. /\ m_datas'[n].m_isInit = m_datas[n].m_isInit
          /\ m_datas'[n].m_isSocket = m_datas[n].m_isSocket
          /\ m_datas'[n].m_sys_nonblock = m_datas[n].m_sys_nonblock
          /\ m_datas'[n].gen = m_datas[n].gen
      BY <1>1, <3>1 DEF SetTimeout, FdCtx
    <3>. QED
      BY <1>2, <3>2, <3>3 DEF FlagSet
  <2>. QED
    BY <2>1, <2>2, <2>3, <2>4
<1>5. \A fd \in Fds : FlagSet(fd)'
  BY <1>1, <1>3, <1>4 DEF FlagInv, FlagSet
<1>6. ASSUME NEW f \in Fibers, InIo(f)' PROVE MadeNonblocking(f)'
  <2>1. MadeNonblocking(f) /\ InIo(f) /\ loc[f].fd \in Fds
    BY <1>1, <1>6 DEF FlagInv, InIo, TypeOK, Locals
  <2>2. CASE loc[f].fd # n
    BY <1>1, <1>3, <2>1, <2>2 DEF MadeNonblocking
  <2>3. CASE loc[f].fd = n
    <3>1. CASE \E h \in Fibers : pc[h] = "closef" /\ loc[h].fd = n
      <4>1. PICK h \in Fibers : pc[h] = "closef" /\ loc[h].fd = n
        BY <3>1
      <4>2. loc[h].op = "close" /\ Uses(h, n) /\ m_datas[n].gen = 0
        BY <1>2, <4>1 DEF CtxInv, CallFits, Closing, Uses, Context, Bare
      <4>3. ~Usable(n)
        BY <4>2 DEF Usable
      <4>4. FALSE
        BY <4>3 DEF InitCtx, Fcntl, Ioctl, SetSockOpt
      <4>. QED
        BY <4>4
    <3>2. CASE ~\E h \in Fibers : pc[h] = "closef" /\ loc[h].fd = n
      BY <1>1, <1>4, <2>1, <2>3, <3>2 DEF MadeNonblocking
    <3>. QED
      BY <3>1, <3>2
  <2>. QED
    BY <2>2, <2>3
<1>. QED
  BY <1>5, <1>6 DEF FlagInv, MadeNonblocking

\* Opening, closing and the deletion of a context.
LEMMA FlagOpenClose ==
    ASSUME TypeOK, CtxInv, FlagInv, NEW g \in Fibers, NEW n \in Fds,
           Socket(g, n) \/ (n = loc[g].fd /\ (Create(g) \/ Del(g) \/ CloseF(g)))
    PROVE  FlagInv'
<1>1. /\ \A f \in Fibers : f # g => pc'[f] = pc[f] /\ loc'[f] = loc[f]
      /\ ~InIo(g)' /\ ~InIo(g)
      /\ \A fd \in Fds : fd # n => /\ m_datas'[fd] = m_datas[fd] /\ gen'[fd] = gen[fd]
                                   /\ fd \in open' <=> fd \in open
                                   /\ fd \in nonblock' <=> fd \in nonblock
      /\ pc[g] = "closef" => loc[g].fd = n
  BY DEF Socket, Create, Del, CloseF, Calls, Begin, Return, Goto, DelFdCtx, kernel, TypeOK, InIo
<1>2. FlagSet(n) /\ Context(n) /\ CallFits(g) /\ gen[n] \in Nat /\ m_datas[n] \in FdCtx
  BY DEF FlagInv, CtxInv, TypeOK
<1>3. m_datas[n].gen = 0 => m_datas[n].m_isSocket = FALSE /\ m_datas[n].m_isInit = FALSE
  BY <1>2 DEF FlagSet, FdCtx
<1>4. /\ FlagSet(n)'
      /\ \A f \in Fibers : InIo(f) /\ loc[f].fd = n /\ f # g => MadeNonblocking(f)'
  <2>1. CASE Socket(g, n)
    <3>1. /\ m_datas' = m_datas /\ n \notin open /\ gen'[n] = gen[n] + 1
      BY <2>1 DEF Socket, TypeOK
    <3>2. FlagSet(n)'
      BY <1>2, <1>3, <3>1 DEF Context, FlagSet
    <3>3. ASSUME NEW f \in Fibers, InIo(f), loc[f].fd = n, f # g PROVE MadeNonblocking(f)'
      <4>1. loc'[f] = loc[f] /\ loc[f].gen <= gen[n] /\ loc[f].gen \in Nat
        BY <1>1, <3>3 DEF FlagInv, MadeNonblocking, TypeOK, Locals
      <4>2. loc[f].gen # gen'[n] /\ loc[f].gen <= gen'[n]
        BY <1>2, <3>1, <4>1
      <4>. QED
        BY <3>3, <4>1, <4>2 DEF MadeNonblocking
    <3>. QED
      BY <3>2, <3>3
  <2>2. CASE Create(g) /\ n = loc[g].fd
    <3>1. /\ m_datas'[n].m_isSocket = FALSE /\ m_datas'[n].m_isInit = FALSE
      BY <2>2 DEF Create, NewFdCtx, NoCtx, TypeOK
    <3>2. UNCHANGED <<gen, open, nonblock>> /\ pc[g] = "create"
      BY <2>2 DEF Create, kernel
    <3>3. m_datas[n].m_isSocket = FALSE
      BY <1>2, <1>3, <2>2, <3>2 DEF Context, Bare
    <3>4. ASSUME NEW f \in Fibers, InIo(f), loc[f].fd = n, f # g PROVE MadeNonblocking(f)'
      <4>1. MadeNonblocking(f)
        BY DEF FlagInv
      <4>2. ~\E h \in Fibers : pc[h] = "closef" /\ loc[h].fd = n
        BY <2>2, <3>2 DEF CtxInv, OneOpener, Opening, Closing
      <4>3. loc[f].gen <= gen[n] /\ ~(loc[f].gen = gen[n] /\ n \in open)
        BY <3>3, <3>4, <4>1, <4>2 DEF MadeNonblocking
      <4>. QED
        BY <1>1, <3>2, <3>4, <4>3 DEF MadeNonblocking
    <3>5. FlagSet(n)'
      BY <3>1 DEF FlagSet
    <3>. QED
      BY <3>4, <3>5
  <2>3. CASE Del(g) /\ n = loc[g].fd
    <3>1. /\ m_datas'[n].m_isSocket = FALSE /\ m_datas'[n].m_isInit = FALSE
      BY <2>3 DEF Del, DelFdCtx, NoCtx, TypeOK
    <3>2. UNCHANGED <<gen, open, nonblock, loc>> /\ pc'[g] = "closef"
      BY <2>3 DEF Del, kernel, Goto, TypeOK
    <3>3. ASSUME NEW f \in Fibers, InIo(f), loc[f].fd = n, f # g PROVE MadeNonblocking(f)'
      <4>1. MadeNonblocking(f)
        BY DEF FlagInv
      <4>2. /\ loc[f].gen <= gen[n]
            /\ loc[f].gen = gen[n] /\ n \in open => n \in nonblock
        BY <3>3, <4>1 DEF MadeNonblocking
      <4>3. \E h \in Fibers : pc'[h] = "closef" /\ loc'[h].fd = n
        BY <2>3, <3>2
      <4>. QED
        BY <3>2, <3>3, <4>2, <4>3 DEF MadeNonblocking
    <3>4. FlagSet(n)'
      BY <3>1 DEF FlagSet
    <3>. QED
      BY <3>3, <3>4
  <2>4. CASE CloseF(g) /\ n = loc[g].fd
    <3>1. UNCHANGED <<gen, m_datas>> /\ n \notin open' /\ pc[g] = "closef"
      BY <2>4 DEF CloseF
    <3>2. m_datas[n].gen = 0
      BY <1>2, <2>4, <3>1 DEF Context, Bare
    <3>3. FlagSet(n)'
      BY <1>3, <3>1, <3>2 DEF FlagSet
    <3>4. ASSUME NEW f \in Fibers, InIo(f), loc[f].fd = n, f # g PROVE MadeNonblocking(f)'
      <4>1. loc[f].gen <= gen[n]
        BY <3>4 DEF FlagInv, MadeNonblocking
      <4>. QED
        BY <1>1, <3>1, <3>4, <4>1 DEF MadeNonblocking
    <3>. QED
      BY <3>3, <3>4
  <2>. QED
    BY <2>1, <2>2, <2>3, <2>4
<1>5. \A fd \in Fds : FlagSet(fd)'
  BY <1>1, <1>4 DEF FlagInv, FlagSet
<1>6. ASSUME NEW f \in Fibers, InIo(f)' PROVE MadeNonblocking(f)'
  <2>1. f # g /\ pc'[f] = pc[f] /\ loc'[f] = loc[f] /\ InIo(f)
    BY <1>1, <1>6 DEF InIo
  <2>2. CASE loc[f].fd = n
    BY <1>4, <2>1, <2>2
  <2>3. CASE loc[f].fd # n
    <3>1. MadeNonblocking(f) /\ loc[f].fd \in Fds
      BY DEF FlagInv, TypeOK, Locals
    <3>2. \A h \in Fibers : pc[h] = "closef" /\ loc[h].fd = loc[f].fd
                                => pc'[h] = "closef" /\ loc'[h].fd = loc[f].fd
      BY <1>1, <2>3
    <3>. QED
      BY <1>1, <2>1, <2>3, <3>1, <3>2 DEF MadeNonblocking
  <2>. QED
    BY <2>2, <2>3
<1>. QED
  BY <1>5, <1>6 DEF FlagInv, MadeNonblocking

LEMMA FlagNext ==
    ASSUME FALSE \notin NonblockArgs
    PROVE  TokenInv /\ CtxInv /\ FlagInv /\ [Next]_vars => FlagInv'
<1>. SUFFICES ASSUME TokenInv, CtxInv, FlagInv, [Next]_vars PROVE FlagInv'
  OBVIOUS
<1>0. TypeOK /\ pc \in [Fibers -> PcValues] /\ loc \in [Fibers -> Locals]
  BY DEF TokenInv, Typed, TypeOK
<1>1. CASE TakeFiber
  <2>1. UNCHANGED <<m_datas, gen, open, nonblock, loc>>
    BY <1>1 DEF TakeFiber, kernel
  <2>2. PICK g \in Fibers : /\ pc[g] \in Holds
                            /\ pc' = [pc EXCEPT ![g] = IF pc[g] = "wait" THEN "back" ELSE "user"]
    BY <1>1, TakenHolds
  <2>. QED
    BY <1>0, <2>1, <2>2, FlagFrame DEF Holds, InIo
<1>2. CASE UNCHANGED <<m_datas, gen, open, nonblock, pc, loc>>
  BY <1>0, <1>2, FlagFrame DEF InIo
<1>3. CASE TakeCb
  BY <1>2, <1>3 DEF TakeCb, kernel, fibers
<1>4. ASSUME NEW X \in SUBSET timers, NEW E \in SUBSET Reportable, Poll(X, E) PROVE FlagInv'
  BY <1>2, <1>4 DEF Poll, fibers
<1>5. ASSUME NEW tm \in inHand, RunCb(tm) PROVE FlagInv'
  <2>1. UNCHANGED <<m_datas, gen, open, nonblock, pc>>
    BY <1>5 DEF RunCb
  <2>2. loc' = loc \/ loc' = [loc EXCEPT ![tm.fiber].cancelled = tm.wait]
    BY <1>5 DEF RunCb
  <2>3. \A f \in Fibers : loc'[f].gen = loc[f].gen /\ loc'[f].fd = loc[f].fd
    BY <1>0, <2>2 DEF Locals
  <2>. QED
    BY <1>0, <2>1, <2>3, FlagFrame DEF InIo
<1>6. ASSUME NEW f \in Fibers, NEW fd \in Fds, NEW op \in IoOps,
             CallThrough(f, op, fd) \/ CallWaiting(f, op, fd)
      PROVE  FlagInv'
  <2>1. CASE CallThrough(f, op, fd)
    <3>1. /\ pc[f] = "user" /\ UNCHANGED <<m_datas, gen, open, nonblock>>
          /\ \E l \in {"user", "libc"} : pc' = [pc EXCEPT ![f] = l]
          /\ \A g \in Fibers : g # f => loc'[g] = loc[g]
      BY <1>0, <2>1 DEF CallThrough, Calls, Begin, Goto, kernel
    <3>. QED
      BY <1>0, <3>1, FlagFrame DEF InIo
  <2>2. CASE CallWaiting(f, op, fd)
    <3>1. /\ pc[f] = "user" /\ UNCHANGED <<m_datas, gen, open, nonblock>>
          /\ pc' = [pc EXCEPT ![f] = "try"] /\ loc'[f].fd = fd /\ loc'[f].gen = gen[fd]
          /\ \A g \in Fibers : g # f => loc'[g] = loc[g]
          /\ m_datas[fd].m_isSocket
      BY <1>0, <2>2 DEF CallWaiting, Calls, Goto, kernel, Passes
    <3>2. \A x \in Fds : FlagSet(x)'
      BY <3>1 DEF FlagInv, FlagSet
    <3>3. MadeNonblocking(f)'
      <4>1. FlagSet(fd) /\ gen[fd] <= gen[fd]
        BY <1>0 DEF FlagInv, TypeOK
      <4>. QED
        BY <3>1, <4>1 DEF FlagSet, MadeNonblocking
    <3>4. ASSUME NEW g \in Fibers, g # f PROVE MadeNonblocking(g)'
      <4>1. MadeNonblocking(g) /\ pc'[g] = pc[g] /\ loc'[g] = loc[g]
        BY <1>0, <3>1, <3>4 DEF FlagInv
      <4>2. \A h \in Fibers : pc[h] = "closef" => pc'[h] = "closef" /\ loc'[h] = loc[h]
        BY <1>0, <3>1
      <4>. QED
        BY <3>1, <4>1, <4>2 DEF MadeNonblocking, InIo
    <3>. QED
      BY <3>2, <3>3, <3>4 DEF FlagInv
  <2>. QED
    BY <1>6, <2>1, <2>2
<1>7. ASSUME NEW f \in Fibers,
             \/ LibcReturns(f) \/ Try(f) \/ Arm(f) \/ AddEvent(f) \/ Resume(f) \/ Sleep(f)
             \/ End(f)
      PROVE  FlagInv'
  <2>1. /\ pc[f] \in {"libc", "try", "arm", "add", "back", "user"}
        /\ UNCHANGED <<m_datas, gen, open, nonblock>>
        /\ \/ pc' = pc
           \/ pc[f] \notin {"libc", "user"} /\ \E l \in {"arm", "add", "wait", "try"} : pc' = [pc EXCEPT ![f] = l]
           \/ \E l \in {"user", "sleep", "done"} : pc' = [pc EXCEPT ![f] = l]
    BY <1>7 DEF LibcReturns, Try, Arm, AddEvent, Resume, Sleep, End, Calls, Return, Goto, kernel
  <2>2. \A g \in Fibers : \/ g = f /\ pc'[f] = "user"
                          \/ loc'[g].gen = loc[g].gen /\ loc'[g].fd = loc[g].fd
    <3>1. \/ loc' = loc \/ \E w : loc' = [loc EXCEPT ![f].wait = w]
          \/ Return(f)
      BY <1>7 DEF LibcReturns, Try, Arm, AddEvent, Resume, Sleep, End
    <3>2. CASE Return(f)
      BY <1>0, <3>2, Returns
    <3>. QED
      BY <1>0, <3>1, <3>2 DEF Locals
  <2>. QED
    BY <1>0, <2>1, <2>2, FlagFrame DEF InIo
<1>8. ASSUME NEW f \in Fibers, CancelAll(f) \/ Lookup(f) PROVE FlagInv'
  <2>1. /\ UNCHANGED <<m_datas, gen, open, nonblock>> /\ pc[f] \in {"cancel", "lookup"}
        /\ \E l \in {"del", "create", "user"} : pc' = [pc EXCEPT ![f] = l]
    BY <1>8 DEF CancelAll, Lookup, Return, Goto, kernel
  <2>2. \A g \in Fibers : g # f => loc'[g] = loc[g]
    BY <1>0, <1>8, Returns DEF CancelAll, Lookup
  <2>. QED
    BY <1>0, <2>1, <2>2, FlagFrame DEF InIo
<1>9. ASSUME NEW f \in Fibers, NEW fd \in Fds, Close(f, fd) PROVE FlagInv'
  <2>1. /\ UNCHANGED <<m_datas, gen, open, nonblock>> /\ pc[f] = "user"
        /\ \E l \in {"cancel", "closef"} : pc' = [pc EXCEPT ![f] = l]
        /\ \A g \in Fibers : g # f => loc'[g] = loc[g]
    BY <1>0, <1>9 DEF Close, Calls, Begin, Goto, kernel
  <2>. QED
    BY <1>0, <2>1, FlagFrame DEF InIo
<1>10. ASSUME NEW f \in Fibers, NEW fd \in Fds, Socket(f, fd) PROVE FlagInv'
  BY <1>0, <1>10, FlagOpenClose
<1>11. ASSUME NEW f \in Fibers, Create(f) \/ Del(f) \/ CloseF(f) PROVE FlagInv'
  <2>1. PICK n \in Fds : n = loc[f].fd
    BY <1>0 DEF Locals
  <2>. QED
    BY <1>0, <1>11, <2>1, FlagOpenClose
<1>12. ASSUME NEW f \in Fibers, NEW fd \in Fds,
              \/ InitCtx(f, fd)
              \/ \E arg \in BOOLEAN : Fcntl(f, fd, arg)
              \/ \E arg \in NonblockArgs : Ioctl(f, fd, arg)
              \/ \E type \in {"RCV", "SND"} : SetSockOpt(f, fd, type)
      PROVE  FlagInv'
  <2>1. \A arg \in NonblockArgs : arg = TRUE
    BY HookAssumption
  <2>2. (\E arg \in NonblockArgs : Ioctl(f, fd, arg)) => Ioctl(f, fd, TRUE)
    BY <2>1
  <2>. QED
    BY <1>0, <1>12, <2>2, FlagOptions
<1>13. ASSUME NEW fd \in Fds, NEW e \in Events, Arrive(fd, e) PROVE FlagInv'
  BY <1>2, <1>13 DEF Arrive, fibers
<1>14. CASE UNCHANGED vars
  BY <1>2, <1>14 DEF vars, kernel, fibers
<1>. QED
  BY <1>1, <1>3, <1>4, <1>5, <1>6, <1>7, <1>8, <1>9, <1>10, <1>11, <1>12, <1>13, <1>14
  DEF Next, Step, UserStep, FiberStep, IdleStep, Over

\* As long as nobody clears the flag with ioctl(FIONBIO, 0), which is passed on
\* as it is, no hooked call blocks its worker in libc: fcntl cannot clear the
\* flag and close deletes the context before the number is free.
THEOREM NeverBlocksCorrect ==
    ASSUME FALSE \notin NonblockArgs
    PROVE  Spec => []NeverBlocksWorker
<1>1. Init => TokenInv /\ CtxInv /\ FlagInv
  BY TypedInit, WokenInit, CtxInit, FlagInit DEF TokenInv
<1>2. FlagInv => NeverBlocksWorker
  BY DEF FlagInv, MadeNonblocking, NeverBlocksWorker, InIo
<1>. QED
  BY <1>1, <1>2, TokenNext, CtxNext, FlagNext, PTL DEF Spec

-----------------------------------------------------------------------------
(* One worker.  Only one fiber or callback runs at a time, and the         *)
(* callbacks of the timers that expired run before any fiber does.         *)

OneActor ==
    /\ \A f, g \in Fibers : pc[f] \notin Off /\ pc[g] \notin Off => f = g
    /\ \A s, t \in inHand : s = t
    /\ \A f \in Fibers : pc[f] \notin Off => inHand = {}

NoCb(s) == \A i \in DOMAIN s : s[i].kind # "cb"
CbsFirst(s) == \A i, j \in DOMAIN s : i <= j /\ s[j].kind = "cb" => s[i].kind = "cb"

\* A condition timer is the one of its call and of the wait the call is in,
\* and while its callback is under way the fiber holds.
Waits == {"add", "wait", "back"}
Fits(tm) ==
    ~tm.sleeps =>
        /\ tm \in timers => tm = TimerOf(tm.fiber) /\ pc[tm.fiber] \in Waits
        /\ tm \in inHand \/ In(m_fibers, CbTask(tm))
                => tm = TimerOf(tm.fiber) /\ pc[tm.fiber] = "wait"

\* Only the timer of the wait it is in has marked a call.
Marked(f) ==
    /\ pc[f] \in {"try", "arm", "add"} => loc[f].cancelled = NotCancelled
    /\ pc[f] \in {"wait", "back"} => loc[f].cancelled \in {NotCancelled, loc[f].wait}

SoloInv ==
    /\ OneActor
    /\ CbsFirst(m_fibers)
    /\ \A tm \in Timer : Fits(tm)
    /\ \A f \in Fibers : Marked(f)

\* After cancel_all nobody is registered for the descriptor that is closed.
Emptied(f) == pc[f] \in {"del", "closef"} => \A e \in Events : m_events[loc[f].fd][e] = NoFiber

WatchInv == StaysWatched /\ \A f \in Fibers : Emptied(f)

LEMMA CbsFirstTail ==
    ASSUME NEW s \in Seq(Task), s # <<>>, CbsFirst(s)
    PROVE  CbsFirst(Tail(s)) /\ (Head(s).kind # "cb" => NoCb(s))
<1>1. /\ Len(s) \in Nat \ {0} /\ DOMAIN s = 1..Len(s) /\ DOMAIN Tail(s) = 1..(Len(s) - 1)
      /\ \A i \in 1 .. (Len(s) - 1) : Tail(s)[i] = s[i+1]
      /\ Head(s) = s[1]
  BY HeadTailProperties, LenProperties, EmptySeq
<1>2. CbsFirst(Tail(s))
  <2>. SUFFICES ASSUME NEW i \in DOMAIN Tail(s), NEW j \in DOMAIN Tail(s), i <= j,
                       Tail(s)[j].kind = "cb"
                PROVE  Tail(s)[i].kind = "cb"
    BY DEF CbsFirst
  <2>1. i + 1 \in DOMAIN s /\ j + 1 \in DOMAIN s /\ i + 1 <= j + 1
    BY <1>1
  <2>2. s[j + 1].kind = "cb"
    BY <1>1
  <2>3. s[i + 1].kind = "cb"
    BY <2>1, <2>2 DEF CbsFirst
  <2>. QED
    BY <1>1, <2>3
<1>3. ASSUME NEW j \in DOMAIN s, s[j].kind = "cb" PROVE Head(s).kind = "cb"
  <2>1. 1 \in DOMAIN s /\ 1 <= j
    BY <1>1
  <2>. QED
    BY <1>1, <1>3, <2>1 DEF CbsFirst
<1>. QED
  BY <1>2, <1>3 DEF NoCb

LEMMA CbsFirstConcat ==
    ASSUME NEW s \in Seq(Task), NEW u \in Seq(Task), CbsFirst(s), NoCb(u)
    PROVE  CbsFirst(s \o u)
<1>1. /\ Len(s) \in Nat /\ Len(u) \in Nat /\ DOMAIN s = 1..Len(s) /\ DOMAIN u = 1..Len(u)
      /\ DOMAIN (s \o u) = 1..(Len(s) + Len(u))
      /\ \A i \in 1 .. Len(s) + Len(u) :
            (s \o u)[i] = IF i <= Len(s) THEN s[i] ELSE u[i - Len(s)]
  BY LenProperties, ConcatProperties
<1>. SUFFICES ASSUME NEW i \in DOMAIN (s \o u), NEW j \in DOMAIN (s \o u), i <= j,
                     (s \o u)[j].kind = "cb"
              PROVE  (s \o u)[i].kind = "cb"
  BY DEF CbsFirst
<1>2. j <= Len(s)
  <2>. SUFFICES ASSUME ~(j <= Len(s)) PROVE FALSE
    OBVIOUS
  <2>1. j - Len(s) \in DOMAIN u /\ (s \o u)[j] = u[j - Len(s)]
    BY <1>1
  <2>. QED
    BY <2>1 DEF NoCb
<1>3. i \in DOMAIN s /\ j \in DOMAIN s /\ (s \o u)[i] = s[i] /\ (s \o u)[j] = s[j]
  BY <1>1, <1>2
<1>. QED
  BY <1>3 DEF CbsFirst

LEMMA InNoCb ==
    ASSUME NEW s \in Seq(Task), \A tm \in Timer : ~In(s, CbTask(tm)) PROVE NoCb(s)
<1>. SUFFICES ASSUME NEW i \in DOMAIN s, s[i].kind = "cb" PROVE FALSE
  BY DEF NoCb
<1>1. s[i] \in Task
  OBVIOUS
<1>2. s[i].timer \in Timer /\ s[i] = CbTask(s[i].timer)
  BY <1>1, TaskForms
<1>. QED
  BY <1>2 DEF In

LEMMA NoCbIn ==
    ASSUME NEW s, NoCb(s), NEW tm PROVE ~In(s, CbTask(tm))
<1>1. CbTask(tm).kind = "cb"
  BY TaskForms
<1>. QED
  BY <1>1 DEF NoCb, In

\* With one worker, who takes a task or polls is alone.
LEMMA NobodyRuns ==
    ASSUME Typed, Workers = 1, SomeoneIsFree
    PROVE  inHand = {} /\ \A f \in Fibers : pc[f] \in Off
<1>1. IsFiniteSet(Running) /\ IsFiniteSet(inHand)
  BY HookAssumption, FS_Subset DEF Running, Typed
<1>2. Cardinality(Running) \in Nat /\ Cardinality(inHand) \in Nat
  BY <1>1, FS_CardinalityType
<1>3. Cardinality(Running) = 0 /\ Cardinality(inHand) = 0
  BY <1>2 DEF SomeoneIsFree
<1>4. Running = {} /\ inHand = {}
  BY <1>1, <1>3, FS_EmptySet
<1>. QED
  BY <1>4 DEF Running

LEMMA OneActorNext ==
    ASSUME Workers = 1
    PROVE  TokenInv /\ OneActor /\ [Next]_vars => OneActor'
<1>. SUFFICES ASSUME TokenInv, OneActor, [Next]_vars PROVE OneActor'
  OBVIOUS
<1>0. Typed /\ pc \in [Fibers -> PcValues]
  BY DEF TokenInv, Typed, TypeOK
<1>1. CASE TakeFiber
  <2>1. inHand' = {} /\ \A f \in Fibers : pc[f] \in Off
    BY <1>0, <1>1, NobodyRuns DEF TakeFiber
  <2>2. PICK g \in Fibers : pc' = [pc EXCEPT ![g] = IF pc[g] = "wait" THEN "back" ELSE "user"]
    BY <1>1, TakenHolds
  <2>3. \A f \in Fibers : pc'[f] \notin Off => f = g
    BY <1>0, <2>1, <2>2
  <2>. QED
    BY <2>1, <2>3 DEF OneActor
<1>2. CASE TakeCb
  <2>1. inHand = {} /\ pc' = pc /\ \A f \in Fibers : pc[f] \in Off
    BY <1>0, <1>2, NobodyRuns DEF TakeCb, fibers
  <2>2. PICK c : inHand' = inHand \cup {c}
    BY <1>2 DEF TakeCb
  <2>. QED
    BY <2>1, <2>2 DEF OneActor
<1>3. ASSUME inHand' \subseteq inHand, \A f \in Fibers : pc'[f] \notin Off => pc[f] \notin Off
      PROVE  OneActor'
  BY <1>3 DEF OneActor
<1>4. ASSUME NEW X \in SUBSET timers, NEW E \in SUBSET Reportable, Poll(X, E) PROVE OneActor'
  BY <1>3, <1>4 DEF Poll, fibers
<1>5. ASSUME NEW tm \in inHand, RunCb(tm) PROVE OneActor'
  BY <1>3, <1>5 DEF RunCb
<1>6. ASSUME NEW f \in Fibers, UserStep(f) \/ FiberStep(f) PROVE OneActor'
  <2>1. inHand' = inHand
    BY <1>6 DEF UserStep, FiberStep, CallThrough, CallWaiting, Socket, Close, InitCtx, Fcntl,
                Ioctl, SetSockOpt, Sleep, LibcReturns, Try, Arm, AddEvent, Resume, Lookup, Create,
                CancelAll, Del, CloseF, End, iom
  <2>2. pc[f] \notin Off
    <3>1. CASE UserStep(f)
      <4>1. pc[f] = "user"
        BY <3>1 DEF UserStep, CallThrough, CallWaiting, Socket, Close, InitCtx, Fcntl, Ioctl,
                    SetSockOpt, Sleep, Calls
      <4>. QED
        BY <4>1 DEF Off
    <3>2. CASE FiberStep(f)
      <4>1. pc[f] \in {"user", "libc", "try", "arm", "add", "back", "cancel", "del", "closef",
                       "lookup", "create"}
        BY <3>2 DEF FiberStep, LibcReturns, Try, Arm, AddEvent, Resume, Lookup, Create, CancelAll, Del,
                    CloseF, End
      <4>. QED
        BY <4>1 DEF Off
    <3>. QED
      BY <1>6, <3>1, <3>2
  <2>3. pc' = pc \/ \E l : pc' = [pc EXCEPT ![f] = l]
    BY <1>6 DEF UserStep, FiberStep, CallThrough, CallWaiting, Socket, Close, InitCtx, Fcntl,
                Ioctl, SetSockOpt, Sleep, LibcReturns, Try, Arm, AddEvent, Resume, Lookup, Create,
                CancelAll, Del, CloseF, End, Return, Goto
  <2>. QED
    BY <1>0, <1>3, <2>1, <2>2, <2>3
<1>7. ASSUME NEW fd \in Fds, NEW e \in Events, Arrive(fd, e) PROVE OneActor'
  BY <1>3, <1>7 DEF Arrive, iom, fibers
<1>8. CASE UNCHANGED vars
  BY <1>3, <1>8 DEF vars, iom, fibers
<1>. QED
  BY <1>1, <1>2, <1>4, <1>5, <1>6, <1>7, <1>8 DEF Next, Step, IdleStep, Over

\* Putting fibers on the list.
LEMMA AppendFibers ==
    ASSUME NEW s \in Seq(Task), NEW u \in Seq(Task), NoCb(u), CbsFirst(s)
    PROVE  /\ s \o u \in Seq(Task) /\ CbsFirst(s \o u)
           /\ \A tm : In(s \o u, CbTask(tm)) <=> In(s, CbTask(tm))
  BY CbsFirstConcat, InConcat, NoCbIn

\* The list and the callbacks on it after a callback or cancel_all.
ListKept ==
    /\ CbsFirst(m_fibers)'
    /\ \A tm \in Timer : In(m_fibers', CbTask(tm)) => In(m_fibers, CbTask(tm))

LEMMA RunCbList ==
    ASSUME Typed, CbsFirst(m_fibers), NEW c \in inHand, RunCb(c) PROVE ListKept
<1>1. c \in Timer /\ c.fiber \in Fibers /\ m_fibers \in Seq(Task)
  BY DEF Typed, TypeOK, Timer
<1>2. CASE m_fibers' = m_fibers
  BY <1>2 DEF ListKept
<1>3. CASE m_fibers' = Append(m_fibers, FiberTask(c.fiber))
  <2>1. PICK x : x = FiberTask(c.fiber)
    OBVIOUS
  <2>2. x \in Task /\ x.kind # "cb"
    BY <1>1, <2>1, TaskForms
  <2>3. <<x>> \in Seq(Task) /\ NoCb(<<x>>) /\ m_fibers' = m_fibers \o <<x>>
    BY <1>1, <1>3, <2>1, <2>2, AppendIsConcat DEF NoCb
  <2>. QED
    BY <1>1, <2>3, AppendFibers DEF ListKept
<1>4. CASE \E q \in Orders(TasksOf(CancelsEvent(c))) : m_fibers' = m_fibers \o q
  <2>1. PICK E : E = CancelsEvent(c)
    OBVIOUS
  <2>2. PICK q \in Orders(TasksOf(E)) : m_fibers' = m_fibers \o q
    BY <1>4, <2>1
  <2>3. /\ E \in SUBSET (Fds \X Events)
        /\ \A y \in E : m_events[y[1]][y[2]] \in Fibers
    BY <1>1, <2>1, TriggeredHaveFibers
  <2>4. /\ q \in Seq(Task)
        /\ \A x : In(q, x) => \E y \in E : x = FiberTask(m_events[y[1]][y[2]])
    BY <2>3, EventTasks
  <2>5. \A tm \in Timer : ~In(q, CbTask(tm))
    BY <2>4, TaskForms
  <2>6. NoCb(q)
    BY <2>4, <2>5, InNoCb
  <2>. QED
    BY <1>1, <2>2, <2>4, <2>6, AppendFibers DEF ListKept
<1>. QED
  BY <1>2, <1>3, <1>4 DEF RunCb

LEMMA CancelAllList ==
    ASSUME Typed, CbsFirst(m_fibers), NEW f \in Fibers, CancelAll(f) PROVE ListKept
<1>1. PICK fd \in Fds : fd = loc[f].fd
  BY DEF Typed, TypeOK, Locals
<1>2. PICK E : E = CancelAllEvents(fd)
  OBVIOUS
<1>3. PICK T : T = [e \in Events |-> IF <<fd, e>> \in E
                                     THEN <<FiberTask(m_events[fd][e])>> ELSE <<>>]
  OBVIOUS
<1>4. ASSUME NEW e \in Events PROVE T[e] \in Seq(Task) /\ NoCb(T[e])
  <2>1. CASE <<fd, e>> \in E
    <3>1. m_events[fd][e] \in Fibers
      BY <1>2, <2>1 DEF CancelAllEvents, Typed, TypeOK
    <3>2. PICK x : x = FiberTask(m_events[fd][e])
      OBVIOUS
    <3>3. x \in Task /\ x.kind # "cb" /\ T[e] = <<x>>
      BY <1>3, <2>1, <3>1, <3>2, TaskForms
    <3>. QED
      BY <3>3 DEF NoCb
  <2>2. CASE <<fd, e>> \notin E
    <3>1. T[e] = <<>>
      BY <1>3, <2>2
    <3>. QED
      BY <3>1 DEF NoCb
  <2>. QED
    BY <2>1, <2>2
<1>5. PICK a \in Seq(Task), b \in Seq(Task) :
            a = T["READ"] /\ b = T["WRITE"] /\ NoCb(a) /\ NoCb(b)
  BY <1>4 DEF Events
<1>6. m_fibers \in Seq(Task) /\ m_fibers' = m_fibers \o a \o b
  BY <1>1, <1>2, <1>3, <1>5 DEF CancelAll, Typed, TypeOK
<1>7. PICK s : s = m_fibers \o a
  OBVIOUS
<1>8. s \in Seq(Task) /\ CbsFirst(s) /\ \A tm : In(s, CbTask(tm)) <=> In(m_fibers, CbTask(tm))
  BY <1>5, <1>6, <1>7, AppendFibers
<1>9. CbsFirst(s \o b) /\ \A tm : In(s \o b, CbTask(tm)) <=> In(s, CbTask(tm))
  BY <1>5, <1>8, AppendFibers
<1>. QED
  BY <1>6, <1>7, <1>8, <1>9 DEF ListKept

LEMMA SoloInit == Init => SoloInv
<1>. SUFFICES ASSUME Init PROVE SoloInv
  OBVIOUS
<1>1. \A f \in Fibers : pc[f] = "new"
  BY DEF Init
<1>2. m_fibers \in Seq(Task) /\ \A tm : ~In(m_fibers, CbTask(tm))
  BY InitTasks, TaskForms
<1>3. NoCb(m_fibers)
  BY <1>2, InNoCb
<1>4. timers = {} /\ inHand = {}
  BY DEF Init
<1>. QED
  BY <1>1, <1>2, <1>3, <1>4 DEF SoloInv, OneActor, Off, CbsFirst, NoCb, Fits, Marked

\* A step that brings no condition timer and disturbs no call that has one.
LEMMA FitsFrame ==
    ASSUME \A tm \in Timer : Fits(tm),
           \A tm \in Timer : ~tm.sleeps =>
                /\ tm \in timers' => tm \in timers
                /\ tm \in inHand' => tm \in inHand \/ In(m_fibers, CbTask(tm))
                /\ In(m_fibers', CbTask(tm)) => In(m_fibers, CbTask(tm)),
           \A f \in Fibers : \/ pc[f] \notin Waits
                             \/ /\ pc'[f] = pc[f] /\ calls'[f] = calls[f]
                                /\ loc'[f].wait = loc[f].wait
    PROVE  \A tm \in Timer : Fits(tm)'
<1>. SUFFICES ASSUME NEW tm \in Timer, ~tm.sleeps PROVE Fits(tm)'
  BY DEF Fits
<1>1. PICK f \in Fibers : f = tm.fiber
  BY DEF Timer
<1>2. Fits(tm)
  OBVIOUS
<1>3. CASE pc[f] \notin Waits
  <2>1. tm \notin timers /\ tm \notin inHand /\ ~In(m_fibers, CbTask(tm))
    BY <1>1, <1>2, <1>3 DEF Fits, Waits
  <2>. QED
    BY <2>1 DEF Fits
<1>4. CASE pc'[f] = pc[f] /\ calls'[f] = calls[f] /\ loc'[f].wait = loc[f].wait
  <2>1. TimerOf(f)' = TimerOf(f)
    BY <1>4 DEF TimerOf
  <2>. QED
    BY <1>1, <1>2, <1>4, <2>1 DEF Fits
<1>. QED
  BY <1>3, <1>4

LEMMA SoloNext ==
    ASSUME Workers = 1
    PROVE  TokenInv /\ SoloInv /\ [Next]_vars => SoloInv'
<1>. SUFFICES ASSUME TokenInv, SoloInv, [Next]_vars
              PROVE  CbsFirst(m_fibers)' /\ (\A tm \in Timer : Fits(tm)') /\ \A f \in Fibers : Marked(f)'
  BY OneActorNext DEF SoloInv
<1>. DEFINE Goal == CbsFirst(m_fibers)' /\ (\A tm \in Timer : Fits(tm)') /\ \A f \in Fibers : Marked(f)'
<1>0. /\ Typed /\ TypeOK /\ OneActor /\ CbsFirst(m_fibers)
      /\ (\A tm \in Timer : Fits(tm)) /\ (\A f \in Fibers : Marked(f))
      /\ pc \in [Fibers -> PcValues] /\ loc \in [Fibers -> Locals] /\ calls \in [Fibers -> Nat]
      /\ timers \subseteq Timer /\ inHand \subseteq Timer /\ m_fibers \in Seq(Task)
  BY DEF TokenInv, Typed, TypeOK, SoloInv
<1>1. ASSUME TakeFiber PROVE Goal
  <2>1. /\ inHand = {} /\ inHand' = {} /\ m_fibers # <<>> /\ m_fibers' = Tail(m_fibers)
        /\ UNCHANGED <<timers, loc, calls>>
    BY <1>0, <1>1, NobodyRuns DEF TakeFiber
  <2>2. PICK g \in Fibers : /\ Head(m_fibers) = FiberTask(g) /\ pc[g] \in Holds
                            /\ pc' = [pc EXCEPT ![g] = IF pc[g] = "wait" THEN "back" ELSE "user"]
    BY <1>1, TakenHolds
  <2>3. CbsFirst(m_fibers') /\ NoCb(m_fibers)
    <3>1. Head(m_fibers).kind # "cb"
      BY <2>2, TaskForms
    <3>. QED
      BY <1>0, <2>1, <3>1, CbsFirstTail
  <2>4. \A tm : ~In(m_fibers, CbTask(tm)) /\ ~In(m_fibers', CbTask(tm))
    <3>1. \A tm : ~In(m_fibers, CbTask(tm))
      BY <2>3, NoCbIn
    <3>. QED
      BY <1>0, <2>1, <3>1, InTail
  <2>5. ASSUME NEW tm \in Timer, ~tm.sleeps PROVE Fits(tm)'
    <3>1. PICK f \in Fibers : f = tm.fiber
      BY DEF Timer
    <3>2. Fits(tm) /\ TimerOf(f)' = TimerOf(f)
      BY <1>0, <2>1 DEF TimerOf
    <3>3. tm \in timers => pc[f] \in Waits /\ tm = TimerOf(f)
      BY <2>5, <3>1, <3>2 DEF Fits
    <3>4. pc[f] \in Waits => pc'[f] \in Waits
      BY <1>0, <2>2 DEF Waits, Holds
    <3>. QED
      BY <2>1, <2>4, <3>1, <3>2, <3>3, <3>4 DEF Fits
  <2>6. \A f \in Fibers : Marked(f)'
    BY <1>0, <2>1, <2>2 DEF Marked
  <2>. QED
    BY <2>3, <2>5, <2>6 DEF Fits
<1>2. ASSUME TakeCb PROVE Goal
  <2>1. /\ m_fibers # <<>> /\ m_fibers' = Tail(m_fibers) /\ UNCHANGED <<timers, pc, loc, calls>>
        /\ Head(m_fibers).kind = "cb" /\ inHand' = inHand \cup {Head(m_fibers).timer}
    BY <1>2 DEF TakeCb, fibers
  <2>2. \A x : (In(m_fibers', x) => In(m_fibers, x)) /\ In(m_fibers, Head(m_fibers))
    BY <1>0, <2>1, InTail
  <2>3. Head(m_fibers) \in Task
    BY <1>0, <2>1, InTail
  <2>4. Head(m_fibers) = CbTask(Head(m_fibers).timer)
    BY <2>1, <2>3, TaskForms
  <2>5. \A tm \in Timer : tm \in inHand' => tm \in inHand \/ In(m_fibers, CbTask(tm))
    BY <2>1, <2>2, <2>4
  <2>6. \A tm \in Timer : Fits(tm)'
    BY <1>0, <2>1, <2>2, <2>5, FitsFrame
  <2>7. CbsFirst(m_fibers')
    BY <1>0, <2>1, CbsFirstTail
  <2>. QED
    BY <1>0, <2>1, <2>6, <2>7 DEF Marked
<1>3. ASSUME NEW X \in SUBSET timers, NEW E \in SUBSET Reportable, Poll(X, E) PROVE Goal
  <2>1. /\ inHand = {} /\ inHand' = {} /\ m_fibers = <<>> /\ timers' = timers \ X
        /\ UNCHANGED <<pc, loc, calls>> /\ \A f \in Fibers : pc[f] \in Off
    <3>1. ~(Workers > 1)
      OBVIOUS
    <3>. QED
      BY <1>0, <1>3, <3>1, NobodyRuns DEF Poll, fibers
  <2>2. PICK q \in Orders({CbTask(tm) : tm \in X}), r \in Orders(TasksOf(E)) :
                m_fibers' = m_fibers \o q \o r
    BY <1>3 DEF Poll
  <2>3. /\ q \in Seq(Task)
        /\ \A x : In(q, x) <=> \E tm \in X : x = CbTask(tm)
    <3>1. Typed
      BY <1>0
    <3>2. /\ q \in Seq(Task)
          /\ \A x : (In(q, x) <=> \E tm \in X : x = CbTask(tm)) /\ AtMostOnce(q, x)
      BY <3>1, TimerTasks
    <3>. QED
      BY <3>2
  <2>4. /\ r \in Seq(Task)
        /\ \A x : In(r, x) => \E y \in E : x = FiberTask(m_events[y[1]][y[2]])
    <3>1. /\ E \in SUBSET (Fds \X Events)
          /\ \A y \in E : m_events[y[1]][y[2]] \in Fibers
      BY <1>0, TriggeredHaveFibers
    <3>. QED
      BY <3>1, EventTasks
  <2>5. m_fibers' = q \o r
    <3>1. m_fibers \o q = q
      BY <2>1, <2>3, ConcatEmptySeq
    <3>. QED
      BY <2>2, <3>1
  <2>6. CbsFirst(q)
    <3>1. \A i \in DOMAIN q : q[i].kind = "cb"
      <4>. SUFFICES ASSUME NEW i \in DOMAIN q PROVE q[i].kind = "cb"
        OBVIOUS
      <4>1. In(q, q[i])
        BY DEF In
      <4>. QED
        BY <2>3, <4>1, TaskForms
    <3>. QED
      BY <3>1 DEF CbsFirst
  <2>7. NoCb(r)
    <3>1. \A tm \in Timer : ~In(r, CbTask(tm))
      BY <2>4, TaskForms
    <3>. QED
      BY <2>4, <3>1, InNoCb
  <2>8. CbsFirst(m_fibers') /\ \A tm : In(m_fibers', CbTask(tm)) <=> In(q, CbTask(tm))
    BY <2>3, <2>4, <2>5, <2>6, <2>7, AppendFibers
  <2>9. \A tm : In(m_fibers', CbTask(tm)) => tm \in X
    BY <2>3, <2>8, TaskForms
  <2>10. ASSUME NEW tm \in Timer, ~tm.sleeps PROVE Fits(tm)'
    <3>1. PICK f \in Fibers : f = tm.fiber
      BY DEF Timer
    <3>2. Fits(tm) /\ TimerOf(f)' = TimerOf(f)
      BY <1>0, <2>1 DEF TimerOf
    <3>3. tm \in timers => tm = TimerOf(f) /\ pc[f] = "wait"
      BY <2>1, <2>10, <3>1, <3>2 DEF Fits, Waits, Off
    <3>. QED
      BY <2>1, <2>9, <3>1, <3>2, <3>3 DEF Fits, Waits
  <2>11. \A f \in Fibers : Marked(f)'
    BY <1>0, <2>1 DEF Marked
  <2>. QED
    BY <2>8, <2>10, <2>11 DEF Fits
<1>4. ASSUME NEW c \in inHand, RunCb(c) PROVE Goal
  <2>1. ListKept /\ inHand' = inHand \ {c} /\ UNCHANGED <<timers, pc, calls>>
    BY <1>0, <1>4, RunCbList DEF RunCb
  <2>2. PICK g \in Fibers : g = c.fiber
    BY <1>0 DEF Timer
  <2>3. \/ loc' = loc
        \/ ~c.sleeps /\ loc' = [loc EXCEPT ![g].cancelled = c.wait]
    BY <1>4, <2>2 DEF RunCb
  <2>4. \A f \in Fibers : loc'[f].wait = loc[f].wait
    <3>1. loc \in [Fibers -> Locals]
      BY <1>0
    <3>. QED
      BY <2>3, <3>1 DEF Locals
  <2>5. \A tm \in Timer : Fits(tm)'
    BY <1>0, <2>1, <2>4, FitsFrame DEF ListKept
  <2>6. ASSUME NEW f \in Fibers PROVE Marked(f)'
    <3>1. Marked(f)
      BY <1>0
    <3>2. CASE loc'[f] = loc[f]
      BY <2>1, <3>1, <3>2 DEF Marked
    <3>3. CASE loc'[f] # loc[f]
      <4>1. f = g /\ ~c.sleeps /\ loc'[f].cancelled = c.wait
        BY <1>0, <2>3, <3>3 DEF Locals
      <4>2. c = TimerOf(g) /\ pc[g] = "wait"
        BY <1>0, <2>2, <4>1 DEF Fits
      <4>3. c.wait = loc[g].wait
        BY <4>2 DEF TimerOf
      <4>. QED
        BY <2>1, <2>4, <4>1, <4>2, <4>3 DEF Marked
    <3>. QED
      BY <3>2, <3>3
  <2>. QED
    BY <2>1, <2>5, <2>6 DEF ListKept
<1>5. ASSUME ListKept, UNCHANGED <<timers, inHand>>,
             \A f \in Fibers :
                \/ /\ pc'[f] = pc[f] /\ calls'[f] = calls[f]
                   /\ loc'[f].wait = loc[f].wait /\ loc'[f].cancelled = loc[f].cancelled
                \/ pc[f] \notin Waits /\ Marked(f)'
      PROVE  Goal
  <2>1. \A tm \in Timer : Fits(tm)'
    BY <1>0, <1>5, FitsFrame DEF ListKept
  <2>2. \A f \in Fibers : Marked(f)'
    BY <1>0, <1>5 DEF Marked
  <2>. QED
    BY <1>5, <2>1, <2>2 DEF ListKept
<1>6. m_fibers' = m_fibers => ListKept
  BY <1>0 DEF ListKept
<1>7. ASSUME NEW f \in Fibers, NEW fd \in Fds, NEW op \in IoOps,
             CallThrough(f, op, fd) \/ CallWaiting(f, op, fd)
      PROVE  Goal
  <2>1. /\ UNCHANGED iom /\ pc[f] = "user" /\ calls' = [calls EXCEPT ![f] = @ + 1]
    BY <1>7 DEF CallThrough, CallWaiting, Calls
  <2>2. \/ UNCHANGED <<pc, loc>>
        \/ /\ \/ pc' = [pc EXCEPT ![f] = "libc"]
              \/ pc' = [pc EXCEPT ![f] = "try"] /\ loc'[f].cancelled = NotCancelled
           /\ \A g \in Fibers : g # f => loc'[g] = loc[g]
    BY <1>0, <1>7 DEF CallThrough, CallWaiting, Begin, Goto
  <2>3. Marked(f)' /\ pc[f] \notin Waits
    BY <1>0, <2>1, <2>2 DEF Marked, Waits
  <2>4. \A g \in Fibers : g # f => pc'[g] = pc[g] /\ calls'[g] = calls[g] /\ loc'[g] = loc[g]
    BY <1>0, <2>1, <2>2
  <2>. QED
    BY <1>5, <1>6, <2>1, <2>3, <2>4 DEF iom
<1>8. ASSUME NEW f \in Fibers, NEW fd \in Fds, Socket(f, fd) \/ Close(f, fd) PROVE Goal
  <2>1. /\ UNCHANGED iom /\ pc[f] = "user" /\ calls' = [calls EXCEPT ![f] = @ + 1]
        /\ \E l \in {"lookup", "cancel", "closef"} : pc' = [pc EXCEPT ![f] = l]
        /\ \A g \in Fibers : g # f => loc'[g] = loc[g]
    BY <1>0, <1>8 DEF Socket, Close, Calls, Begin, Goto
  <2>2. Marked(f)' /\ pc[f] \notin Waits
    BY <1>0, <2>1 DEF Marked, Waits
  <2>3. \A g \in Fibers : g # f => pc'[g] = pc[g] /\ calls'[g] = calls[g] /\ loc'[g] = loc[g]
    BY <1>0, <2>1
  <2>. QED
    BY <1>5, <1>6, <2>1, <2>2, <2>3 DEF iom
<1>9. ASSUME NEW f \in Fibers, NEW fd \in Fds,
             \/ InitCtx(f, fd)
             \/ \E arg \in BOOLEAN : Fcntl(f, fd, arg) \/ Ioctl(f, fd, arg)
             \/ \E type \in {"RCV", "SND"} : SetSockOpt(f, fd, type)
      PROVE  Goal
  <2>1. UNCHANGED <<iom, pc, loc>> /\ pc[f] = "user" /\ calls' = [calls EXCEPT ![f] = @ + 1]
    BY <1>9 DEF InitCtx, Fcntl, Ioctl, SetSockOpt, Calls
  <2>2. Marked(f)' /\ pc[f] \notin Waits
    BY <2>1 DEF Marked, Waits
  <2>3. \A g \in Fibers : g # f => calls'[g] = calls[g]
    BY <1>0, <2>1
  <2>. QED
    BY <1>5, <1>6, <2>1, <2>2, <2>3 DEF iom
<1>10. ASSUME NEW f \in Fibers, Sleep(f) PROVE Goal
  <2>1. /\ UNCHANGED <<m_fibers, inHand, loc>> /\ pc[f] = "user"
        /\ calls' = [calls EXCEPT ![f] = @ + 1] /\ pc' = [pc EXCEPT ![f] = "sleep"]
    BY <1>10 DEF Sleep, Calls, Goto
  <2>2. \A tm \in Timer : ~tm.sleeps => (tm \in timers' => tm \in timers)
    <3>1. PICK n : n = calls'[f]
      OBVIOUS
    <3>2. timers' = timers \cup {[fiber |-> f, call |-> n, wait |-> 0, sleeps |-> TRUE]}
      BY <1>10, <3>1 DEF Sleep
    <3>. QED
      BY <3>2
  <2>3. \A g \in Fibers : g # f => pc'[g] = pc[g] /\ calls'[g] = calls[g]
    BY <1>0, <2>1
  <2>4. \A tm \in Timer : Fits(tm)'
    BY <1>0, <2>1, <2>2, <2>3, FitsFrame DEF Waits
  <2>5. \A g \in Fibers : Marked(g)'
    BY <1>0, <2>1, <2>3 DEF Marked
  <2>. QED
    BY <1>6, <2>1, <2>4, <2>5 DEF ListKept
<1>11. ASSUME NEW f \in Fibers,
              \/ LibcReturns(f) \/ Try(f) \/ Lookup(f) \/ Create(f) \/ Del(f) \/ CloseF(f)
              \/ End(f)
       PROVE  Goal
  <2>1. /\ pc[f] \in {"libc", "try", "lookup", "create", "del", "closef", "user"}
        /\ UNCHANGED <<iom, calls>>
        /\ \E l \in {"user", "arm", "create", "closef", "done"} :
                pc' = [pc EXCEPT ![f] = l] /\ (l = "arm" => pc[f] = "try" /\ loc' = loc)
    BY <1>11 DEF LibcReturns, Try, Lookup, Create, Del, CloseF, End, Return, Goto
  <2>2. Marked(f)' /\ pc[f] \notin Waits
    BY <1>0, <2>1 DEF Marked, Waits
  <2>3. \A g \in Fibers : g # f => pc'[g] = pc[g] /\ loc'[g] = loc[g]
    <3>1. loc' = loc \/ Return(f)
      BY <1>11 DEF LibcReturns, Try, Lookup, Create, Del, CloseF, End
    <3>. QED
      BY <1>0, <2>1, <3>1, Returns
  <2>. QED
    BY <1>5, <1>6, <2>1, <2>2, <2>3 DEF iom
<1>12. ASSUME NEW f \in Fibers, CancelAll(f) PROVE Goal
  <2>1. /\ UNCHANGED <<timers, inHand, loc, calls>> /\ pc[f] = "cancel"
        /\ pc' = [pc EXCEPT ![f] = "del"]
    BY <1>12 DEF CancelAll, Goto
  <2>2. ListKept
    BY <1>0, <1>12, CancelAllList
  <2>3. Marked(f)' /\ pc[f] \notin Waits
    BY <1>0, <2>1 DEF Marked, Waits
  <2>4. \A g \in Fibers : g # f => pc'[g] = pc[g]
    BY <1>0, <2>1
  <2>. QED
    BY <1>5, <2>1, <2>2, <2>3, <2>4
<1>13. ASSUME NEW f \in Fibers, Arm(f) PROVE Goal
  <2>1. PICK w \in 0..2 : w = (loc[f].wait + 1) % 3
    <3>1. loc[f].wait \in 0..2
      BY <1>0 DEF Locals
    <3>. QED
      BY <3>1
  <2>2. loc' = [loc EXCEPT ![f].wait = w]
    BY <1>13, <2>1 DEF Arm
  <2>3. /\ loc'[f].wait = w /\ loc'[f].cancelled = loc[f].cancelled
        /\ \A g \in Fibers : g # f => loc'[g] = loc[g]
    <3>1. loc \in [Fibers -> Locals]
      BY <1>0
    <3>. QED
      BY <2>2, <3>1 DEF Locals
  <2>4. /\ pc[f] = "arm" /\ pc' = [pc EXCEPT ![f] = "add"]
        /\ UNCHANGED <<m_fibers, inHand, calls>>
    BY <1>13 DEF Arm, Goto
  <2>5. timers' \subseteq timers \cup {TimerOf(f)'}
    <3>1. [TimerOf(f) EXCEPT !.wait = w] = TimerOf(f)'
      <4>1. PICK n : n = calls[f] /\ n = calls'[f]
        BY <2>4
      <4>2. TimerOf(f) = [fiber |-> f, call |-> n, wait |-> loc[f].wait, sleeps |-> FALSE]
        BY <4>1 DEF TimerOf
      <4>3. TimerOf(f)' = [fiber |-> f, call |-> n, wait |-> w, sleeps |-> FALSE]
        BY <2>3, <4>1 DEF TimerOf
      <4>4. \A v : [[fiber |-> f, call |-> n, wait |-> v, sleeps |-> FALSE] EXCEPT !.wait = w]
                        = [fiber |-> f, call |-> n, wait |-> w, sleeps |-> FALSE]
        <5>1. \A v, b : [[fiber |-> f, call |-> n, wait |-> v, sleeps |-> b] EXCEPT !.wait = w]
                            = [fiber |-> f, call |-> n, wait |-> w, sleeps |-> b]
          OBVIOUS
        <5>. QED
          BY <5>1
      <4>5. [TimerOf(f) EXCEPT !.wait = w] = [fiber |-> f, call |-> n, wait |-> w, sleeps |-> FALSE]
        BY <4>2, <4>4
      <4>. QED
        BY <4>3, <4>5
    <3>. QED
      BY <1>13, <2>3, <3>1 DEF Arm
  <2>6. ASSUME NEW tm \in Timer, ~tm.sleeps PROVE Fits(tm)'
    <3>1. PICK g \in Fibers : g = tm.fiber
      BY DEF Timer
    <3>2. Fits(tm)
      BY <1>0
    <3>3. CASE g = f
      <4>1. tm \notin timers /\ tm \notin inHand /\ ~In(m_fibers, CbTask(tm))
        BY <2>4, <2>6, <3>1, <3>2, <3>3 DEF Fits, Waits
      <4>2. tm \in timers' => tm = TimerOf(g)'
        BY <2>5, <3>3, <4>1
      <4>3. pc'[g] \in Waits
        BY <1>0, <2>4, <3>3 DEF Waits
      <4>. QED
        BY <2>4, <3>1, <4>1, <4>2, <4>3 DEF Fits
    <3>4. CASE g # f
      <4>1. TimerOf(g)' = TimerOf(g) /\ pc'[g] = pc[g]
        BY <1>0, <2>3, <2>4, <3>4 DEF TimerOf
      <4>2. tm # TimerOf(f)'
        BY <3>1, <3>4 DEF TimerOf
      <4>. QED
        BY <2>4, <2>5, <3>1, <3>2, <4>1, <4>2 DEF Fits
    <3>. QED
      BY <3>3, <3>4
  <2>7. \A g \in Fibers : Marked(g)'
    BY <1>0, <2>3, <2>4 DEF Marked
  <2>. QED
    BY <1>6, <2>4, <2>6, <2>7 DEF ListKept, Fits
<1>14. ASSUME NEW f \in Fibers, AddEvent(f) \/ Resume(f) PROVE Goal
  <2>1. /\ UNCHANGED <<m_fibers, inHand, calls>> /\ pc[f] \in {"add", "back"}
        /\ \/ UNCHANGED <<pc, timers, loc>>
           \/ pc[f] = "add" /\ UNCHANGED <<timers, loc>> /\ pc' = [pc EXCEPT ![f] = "wait"]
           \/ /\ timers' = CancelTimer(f)
              /\ \E l \in {"user", "try"} :
                    /\ pc' = [pc EXCEPT ![f] = l]
                    /\ l = "try" => loc[f].cancelled = NotCancelled /\ loc' = loc
              /\ \A g \in Fibers : g # f => loc'[g] = loc[g]
    <3>1. CASE Return(f)
      <4>1. pc' = [pc EXCEPT ![f] = "user"] /\ \A g \in Fibers : g # f => loc'[g] = loc[g]
        BY <1>0, <3>1, Returns DEF Return, Goto
      <4>2. timers' = CancelTimer(f) \/ UNCHANGED <<pc, timers, loc>>
                \/ (pc[f] = "add" /\ UNCHANGED <<timers, loc>> /\ pc' = [pc EXCEPT ![f] = "wait"])
        BY <1>14 DEF AddEvent, Resume, Goto
      <4>. QED
        BY <1>14, <4>1, <4>2 DEF AddEvent, Resume
    <3>2. CASE ~Return(f)
      BY <1>14, <3>2 DEF AddEvent, Resume, Goto, TimedOut
    <3>. QED
      BY <3>1, <3>2
  <2>2. ASSUME NEW tm \in Timer, ~tm.sleeps PROVE Fits(tm)'
    <3>1. PICK g \in Fibers : g = tm.fiber
      BY DEF Timer
    <3>2. Fits(tm)
      BY <1>0
    <3>3. CASE g = f
      <4>1. tm \notin inHand /\ ~In(m_fibers, CbTask(tm)) /\ (tm \in timers => tm = TimerOf(f))
        BY <2>1, <2>2, <3>1, <3>2, <3>3 DEF Fits
      <4>2. tm \notin timers' \/ (pc'[f] \in Waits /\ loc' = loc)
        BY <1>0, <2>1, <4>1 DEF CancelTimer, Waits
      <4>3. timers' \subseteq timers
        BY <2>1 DEF CancelTimer
      <4>4. loc' = loc => TimerOf(f)' = TimerOf(f)
        BY <2>1 DEF TimerOf
      <4>. QED
        BY <2>1, <3>1, <3>2, <3>3, <4>1, <4>2, <4>3, <4>4 DEF Fits
    <3>4. CASE g # f
      <4>1. pc'[g] = pc[g] /\ timers' \subseteq timers /\ TimerOf(g)' = TimerOf(g)
        BY <1>0, <2>1, <3>4 DEF CancelTimer, TimerOf
      <4>. QED
        BY <2>1, <3>1, <3>2, <4>1 DEF Fits
    <3>. QED
      BY <3>3, <3>4
  <2>3. \A g \in Fibers : Marked(g)'
    BY <1>0, <2>1 DEF Marked
  <2>. QED
    BY <1>6, <2>1, <2>2, <2>3 DEF ListKept, Fits
<1>15. ASSUME UNCHANGED <<iom, fibers>> PROVE Goal
  BY <1>5, <1>6, <1>15 DEF iom, fibers
<1>16. ASSUME NEW fd \in Fds, NEW e \in Events, Arrive(fd, e) PROVE Goal
  BY <1>15, <1>16 DEF Arrive
<1>17. ASSUME UNCHANGED vars PROVE Goal
  BY <1>15, <1>17 DEF vars
<1>. HIDE DEF Goal
<1>18. Goal
  BY <1>1, <1>2, <1>3, <1>4, <1>7, <1>8, <1>9, <1>10, <1>11, <1>12, <1>13, <1>14, <1>16, <1>17,
     HookAssumption
  DEF Next, Step, UserStep, FiberStep, IdleStep, Over
<1>. QED
  BY <1>18 DEF Goal

\* With one worker: a call that reports ETIMEDOUT was marked by the timer of
\* the wait it comes from, since a callback that is under way runs before the
\* fiber goes on.
THEOREM TimeoutCorrect ==
    ASSUME Workers = 1
    PROVE  Spec => []TimeoutIsReal
<1>1. Init => TokenInv /\ SoloInv
  BY TypedInit, WokenInit, SoloInit DEF TokenInv
<1>2. SoloInv => TimeoutIsReal
  BY DEF SoloInv, Marked, TimeoutIsReal, TimedOut
<1>. QED
  BY <1>1, <1>2, TokenNext, SoloNext, PTL DEF Spec

-----------------------------------------------------------------------------
(* Nobody is left behind by close. *)

LEMMA WatchInit == Init => WatchInv
<1>. SUFFICES ASSUME Init PROVE WatchInv
  OBVIOUS
<1>1. /\ \A fd \in Fds, e \in Events : m_events[fd][e] = NoFiber
      /\ \A f \in Fibers : pc[f] = "new"
  BY DEF Init
<1>. QED
  BY <1>1 DEF WatchInv, StaysWatched, Emptied

\* What StaysWatched says of one registration.
WatchedAt(fd, e) ==
    m_events[fd][e] \in Fibers =>
        LET f == m_events[fd][e]
        IN  /\ fd \in open /\ e \in watched[fd]
            /\ pc[f] = "wait" /\ loc[f].fd = fd /\ Registers(loc[f].op) = e

LEMMA WatchedEach ==
    ASSUME TypeOK PROVE StaysWatched <=> \A fd \in Fds, e \in Events : WatchedAt(fd, e)
<1>1. \A fd \in Fds, e \in Events : m_events[fd][e] \in Fibers <=> m_events[fd][e] # NoFiber
  BY HookAssumption DEF TypeOK
<1>. QED
  BY <1>1 DEF StaysWatched, WatchedAt

\* A step that registers nobody, keeps watching who is registered and disturbs
\* no fiber that holds in a call.
LEMMA WatchFrame ==
    ASSUME TypeOK, TypeOK', WatchInv,
           \A fd \in Fds, e \in Events :
                m_events'[fd][e] \in Fibers =>
                    /\ m_events'[fd][e] = m_events[fd][e]
                    /\ fd \in open => fd \in open'
                    /\ e \in watched[fd] => e \in watched'[fd],
           \A f \in Fibers :
                IsRegistered(f)' /\ pc[f] = "wait" =>
                    pc'[f] = "wait" /\ loc'[f].fd = loc[f].fd /\ loc'[f].op = loc[f].op,
           \A f \in Fibers :
                pc'[f] \in {"del", "closef"} => \A e \in Events : m_events'[loc'[f].fd][e] = NoFiber
    PROVE  WatchInv'
<1>1. ASSUME NEW fd \in Fds, NEW e \in Events, m_events'[fd][e] \in Fibers PROVE WatchedAt(fd, e)'
  <2>1. PICK f \in Fibers : f = m_events'[fd][e] /\ f = m_events[fd][e]
    BY <1>1
  <2>2. WatchedAt(fd, e)
    BY WatchedEach DEF WatchInv
  <2>3. /\ fd \in open /\ e \in watched[fd]
        /\ pc[f] = "wait" /\ loc[f].fd = fd /\ Registers(loc[f].op) = e
    BY <2>1, <2>2 DEF WatchedAt
  <2>4. IsRegistered(f)'
    BY <2>1 DEF IsRegistered
  <2>5. pc'[f] = "wait" /\ loc'[f].fd = fd /\ loc'[f].op = loc[f].op
    BY <2>3, <2>4
  <2>. QED
    BY <1>1, <2>1, <2>3, <2>5 DEF WatchedAt, Registers
<1>2. \A fd \in Fds, e \in Events : WatchedAt(fd, e)'
  BY <1>1 DEF WatchedAt
<1>3. StaysWatched'
  <2>1. \A fd \in Fds, e \in Events : m_events'[fd][e] \in Fibers <=> m_events'[fd][e] # NoFiber
    BY HookAssumption DEF TypeOK
  <2>. QED
    BY <1>2, <2>1 DEF StaysWatched, WatchedAt
<1>. QED
  BY <1>3 DEF WatchInv, Emptied

\* Events of E are triggered and no longer watched.
LEMMA WatchWithout ==
    ASSUME TypeOK, NEW E, NEW fd \in Fds, NEW e \in Events,
           m_events' = Without(E), watched' = WatchedWithout(E), m_events'[fd][e] \in Fibers
    PROVE  m_events'[fd][e] = m_events[fd][e] /\ (e \in watched[fd] => e \in watched'[fd])
<1>1. <<fd, e>> \notin E /\ m_events'[fd][e] = m_events[fd][e]
  BY HookAssumption DEF Without
<1>. QED
  BY <1>1 DEF WatchedWithout

LEMMA WatchNext ==
    ASSUME Workers = 1
    PROVE  TokenInv /\ CtxInv /\ SoloInv /\ WatchInv /\ [Next]_vars => WatchInv'
<1>. SUFFICES ASSUME TokenInv, CtxInv, SoloInv, WatchInv, [Next]_vars PROVE WatchInv'
  OBVIOUS
<1>0. /\ Typed /\ TypeOK /\ TypeOK' /\ OneActor
      /\ pc \in [Fibers -> PcValues] /\ loc \in [Fibers -> Locals]
  BY TypedNext DEF TokenInv, Typed, TypeOK, SoloInv
<1>a. \A f \in Fibers : IsRegistered(f) => pc[f] = "wait" /\ ~IsListed(f)
  BY DEF TokenInv, Woken, OneKind
<1>b. /\ \A f \in Fibers : Emptied(f)
      /\ \A f \in Fibers : loc[f].fd \in Fds
  BY <1>0 DEF WatchInv, Locals
\* Nobody is registered anew and epoll forgets nobody.
<1>1. ASSUME UNCHANGED <<m_events, watched, open>>,
             \A f \in Fibers : \/ pc'[f] = pc[f] /\ loc'[f].fd = loc[f].fd /\ loc'[f].op = loc[f].op
                               \/ pc[f] # "wait" /\ Emptied(f)'
                               \/ pc[f] = "wait" /\ ~IsRegistered(f) /\ pc'[f] = "back"
      PROVE  WatchInv'
  <2>1. \A f \in Fibers : IsRegistered(f)' => IsRegistered(f)
    BY <1>1 DEF IsRegistered
  <2>2. \A f \in Fibers : Emptied(f)'
    BY <1>1, <1>b DEF Emptied
  <2>3. \A f \in Fibers :
            IsRegistered(f)' /\ pc[f] = "wait" =>
                pc'[f] = "wait" /\ loc'[f].fd = loc[f].fd /\ loc'[f].op = loc[f].op
    BY <1>1, <2>1
  <2>. QED
    BY <1>0, <1>1, <2>2, <2>3, WatchFrame DEF Emptied
\* Events are triggered.
<1>2. ASSUME NEW E, m_events' = Without(E), watched' = WatchedWithout(E), open' = open,
             \A f \in Fibers : /\ loc'[f].fd = loc[f].fd /\ loc'[f].op = loc[f].op
                               /\ pc'[f] = pc[f] \/ (pc[f] # "wait" /\ Emptied(f)')
      PROVE  WatchInv'
  <2>1. \A fd \in Fds, e \in Events :
            m_events'[fd][e] \in Fibers =>
                /\ m_events'[fd][e] = m_events[fd][e]
                /\ fd \in open => fd \in open'
                /\ e \in watched[fd] => e \in watched'[fd]
    BY <1>0, <1>2, WatchWithout
  <2>2. ASSUME NEW f \in Fibers PROVE Emptied(f)'
    <3>1. \A e \in Events : m_events[loc[f].fd][e] = NoFiber => m_events'[loc[f].fd][e] = NoFiber
      BY <1>2, <1>b DEF Without
    <3>. QED
      BY <1>2, <1>b, <3>1 DEF Emptied
  <2>. QED
    BY <1>0, <1>2, <2>1, <2>2, WatchFrame DEF Emptied
<1>3. CASE TakeFiber
  <2>1. UNCHANGED <<m_events, watched, open, loc>>
    BY <1>3 DEF TakeFiber, kernel
  <2>2. PICK g \in Fibers : /\ Head(m_fibers) = FiberTask(g) /\ pc[g] \in Holds
                            /\ pc' = [pc EXCEPT ![g] = IF pc[g] = "wait" THEN "back" ELSE "user"]
    BY <1>3, TakenHolds
  <2>3. ~IsRegistered(g)
    <3>1. m_fibers \in Seq(Task) /\ m_fibers # <<>>
      BY <1>0, <1>3 DEF TypeOK, TakeFiber
    <3>2. IsListed(g)
      BY <2>2, <3>1, InTail DEF IsListed
    <3>. QED
      BY <1>a, <3>2
  <2>4. pc[g] # "wait" => pc'[g] = "user" /\ Emptied(g)'
    BY <1>0, <2>2 DEF Emptied
  <2>. QED
    BY <1>0, <1>1, <2>1, <2>2, <2>3, <2>4
<1>4. CASE UNCHANGED <<m_events, watched, open, pc, loc>>
  BY <1>1, <1>4
<1>5. CASE TakeCb
  BY <1>4, <1>5 DEF TakeCb, kernel, fibers
<1>6. ASSUME NEW X \in SUBSET timers, NEW E \in SUBSET Reportable, Poll(X, E) PROVE WatchInv'
  BY <1>2, <1>6 DEF Poll, fibers
<1>7. ASSUME NEW c \in inHand, RunCb(c) PROVE WatchInv'
  <2>1. UNCHANGED <<open, pc>>
    BY <1>7 DEF RunCb
  <2>2. \A f \in Fibers : loc'[f].op = loc[f].op /\ loc'[f].fd = loc[f].fd
    <3>1. loc' = loc \/ loc' = [loc EXCEPT ![c.fiber].cancelled = c.wait]
      BY <1>7 DEF RunCb
    <3>2. loc \in [Fibers -> Locals]
      BY <1>0
    <3>. QED
      BY <3>1, <3>2 DEF Locals
  <2>3. CASE UNCHANGED <<m_events, watched>>
    BY <1>1, <2>1, <2>2, <2>3
  <2>4. CASE /\ m_events' = Without(CancelsEvent(c))
             /\ watched' = WatchedWithout(CancelsEvent(c))
    <3>1. PICK E : E = CancelsEvent(c)
      OBVIOUS
    <3>. QED
      BY <1>2, <2>1, <2>2, <2>4, <3>1
  <2>. QED
    BY <1>7, <2>3, <2>4 DEF RunCb
<1>8. ASSUME NEW f \in Fibers, NEW fd \in Fds, NEW op \in IoOps,
             CallThrough(f, op, fd) \/ CallWaiting(f, op, fd)
      PROVE  WatchInv'
  <2>1. /\ UNCHANGED <<m_events, watched, open>> /\ pc[f] = "user"
        /\ \/ UNCHANGED <<pc, loc>>
           \/ /\ \E l \in {"try", "libc"} : pc' = [pc EXCEPT ![f] = l]
              /\ \A g \in Fibers : g # f => loc'[g] = loc[g]
    BY <1>0, <1>8 DEF CallThrough, CallWaiting, Calls, Begin, Goto, kernel, iom
  <2>2. Emptied(f)'
    BY <1>0, <2>1 DEF Emptied
  <2>. QED
    BY <1>0, <1>1, <2>1, <2>2
<1>9. ASSUME NEW f \in Fibers, NEW fd \in Fds, Close(f, fd) PROVE WatchInv'
  <2>1. /\ UNCHANGED <<m_events, watched, open>> /\ pc[f] = "user"
        /\ \A g \in Fibers : g # f => loc'[g] = loc[g] /\ pc'[g] = pc[g]
    BY <1>0, <1>9 DEF Close, Calls, Begin, Goto, kernel, iom
  <2>2. pc'[f] # "closef" /\ pc'[f] # "del"
    <3>1. CtxInv' /\ loc'[f].fd = fd /\ m_datas' = m_datas
      BY <1>0, <1>9, CtxClose DEF Close, Begin, Locals
    <3>2. pc'[f] = IF Exists(m_datas[fd]) THEN "cancel" ELSE "closef"
      BY <1>0, <1>9 DEF Close, Goto
    <3>3. pc'[f] = "closef" => m_datas'[fd].gen = 0
      BY <3>1 DEF CtxInv, Context, Bare
    <3>4. m_datas[fd].gen # 0
      <4>1. /\ fd \in open /\ gen[fd] > 0 /\ gen[fd] \in Nat
            /\ \A g \in Fibers : ~Bare(g, fd)
        <5>1. \A g \in Fibers : Uses(g, fd) => loc[g].op \notin {"close", "socket"}
          BY <1>9 DEF Close
        <5>. QED
          BY <1>0, <1>9, <5>1 DEF Close, CtxInv, Context, CallFits, Opening, Closing, Uses, Bare, TypeOK
      <4>. QED
        BY <4>1 DEF CtxInv, Context
    <3>. QED
      BY <3>1, <3>2, <3>3, <3>4
  <2>. QED
    BY <1>1, <2>1, <2>2 DEF Emptied
<1>10. ASSUME NEW f \in Fibers, NEW fd \in Fds, Socket(f, fd) PROVE WatchInv'
  <2>1. /\ UNCHANGED <<m_events, watched>> /\ open' = open \cup {fd} /\ pc[f] = "user"
        /\ pc' = [pc EXCEPT ![f] = "lookup"] /\ \A g \in Fibers : g # f => loc'[g] = loc[g]
    BY <1>0, <1>10 DEF Socket, Calls, Begin, Goto, iom
  <2>2. \A g \in Fibers : Emptied(g)'
    BY <1>0, <1>b, <2>1 DEF Emptied
  <2>. QED
    BY <1>0, <2>1, <2>2, WatchFrame DEF Emptied
<1>11. ASSUME NEW f \in Fibers, NEW fd \in Fds,
              \/ InitCtx(f, fd)
              \/ \E arg \in BOOLEAN : Fcntl(f, fd, arg) \/ Ioctl(f, fd, arg)
              \/ \E type \in {"RCV", "SND"} : SetSockOpt(f, fd, type)
       PROVE  WatchInv'
  <2>1. UNCHANGED <<m_events, watched, open, pc, loc>>
    BY <1>11 DEF InitCtx, Fcntl, Ioctl, SetSockOpt, iom, kernel
  <2>. QED
    BY <1>4, <2>1
<1>12. ASSUME NEW f \in Fibers,
              \/ LibcReturns(f) \/ Try(f) \/ Arm(f) \/ Resume(f) \/ Lookup(f) \/ Create(f)
              \/ Sleep(f) \/ End(f)
       PROVE  WatchInv'
  <2>1. /\ UNCHANGED <<m_events, watched, open>> /\ pc[f] # "wait"
        /\ \E l \in {"user", "arm", "add", "try", "create", "sleep", "done"} : pc' = [pc EXCEPT ![f] = l]
    BY <1>12 DEF LibcReturns, Try, Arm, Resume, Lookup, Create, Sleep, End, Calls, Return, Goto,
                 iom, kernel
  <2>2. \A g \in Fibers : g # f => loc'[g] = loc[g] /\ pc'[g] = pc[g]
    <3>1. loc' = loc \/ (\E w : loc' = [loc EXCEPT ![f].wait = w]) \/ Return(f)
      BY <1>12 DEF LibcReturns, Try, Arm, Resume, Lookup, Create, Sleep, End
    <3>. QED
      BY <1>0, <2>1, <3>1, Returns
  <2>3. Emptied(f)'
    BY <1>0, <2>1 DEF Emptied
  <2>. QED
    BY <1>1, <2>1, <2>2, <2>3
<1>13. ASSUME NEW f \in Fibers, CancelAll(f) PROVE WatchInv'
  <2>1. PICK E : E = CancelAllEvents(loc[f].fd)
    OBVIOUS
  <2>2. /\ m_events' = Without(E) /\ watched' = WatchedWithout(E) /\ UNCHANGED <<open, loc>>
        /\ pc[f] = "cancel" /\ pc' = [pc EXCEPT ![f] = "del"]
    BY <1>13, <2>1 DEF CancelAll, Goto
  <2>3. Emptied(f)'
    <3>1. \A e \in Events : m_events'[loc[f].fd][e] = NoFiber
      BY <1>b, <2>1, <2>2 DEF Without, CancelAllEvents
    <3>. QED
      BY <2>2, <3>1 DEF Emptied
  <2>. QED
    BY <1>0, <1>2, <2>2, <2>3
<1>14. ASSUME NEW f \in Fibers, Del(f) PROVE WatchInv'
  <2>1. /\ UNCHANGED <<m_events, watched, open, loc>> /\ pc[f] = "del"
        /\ pc' = [pc EXCEPT ![f] = "closef"]
    BY <1>14 DEF Del, Goto, iom, kernel
  <2>2. Emptied(f)'
    BY <1>b, <2>1 DEF Emptied
  <2>. QED
    BY <1>0, <1>1, <2>1, <2>2
<1>15. ASSUME NEW f \in Fibers, CloseF(f) PROVE WatchInv'
  <2>1. PICK n \in Fds : n = loc[f].fd
    BY <1>b
  <2>2. /\ m_events' = m_events /\ pc[f] = "closef"
        /\ pc'[f] = "user" /\ \A g \in Fibers : g # f => pc'[g] = pc[g] /\ loc'[g] = loc[g]
        /\ \A fd \in Fds : fd # n => (fd \in open' <=> fd \in open) /\ watched'[fd] = watched[fd]
    <3>1. Return(f)
      BY <1>15 DEF CloseF
    <3>. QED
      BY <1>0, <1>15, <2>1, <3>1, Returns DEF CloseF, iom, TypeOK
  <2>3. \A e \in Events : m_events[n][e] = NoFiber
    BY <1>b, <2>1, <2>2 DEF Emptied
  <2>4. \A fd \in Fds, e \in Events :
            m_events'[fd][e] \in Fibers =>
                /\ m_events'[fd][e] = m_events[fd][e]
                /\ fd \in open => fd \in open'
                /\ e \in watched[fd] => e \in watched'[fd]
    BY <2>2, <2>3, HookAssumption
  <2>5. \A g \in Fibers : Emptied(g)'
    BY <1>0, <1>b, <2>2 DEF Emptied
  <2>. QED
    BY <1>0, <2>2, <2>4, <2>5, WatchFrame DEF Emptied
<1>16. ASSUME NEW f \in Fibers, AddEvent(f) PROVE WatchInv'
  <2>1. PICK n \in Fds, v \in Events : n = loc[f].fd /\ v = Registers(loc[f].op)
    BY <1>b DEF Registers, Events
  <2>2. open' = open /\ pc[f] = "add"
    BY <1>16 DEF AddEvent
  <2>3. CASE UNCHANGED <<m_events, watched>> /\ (UNCHANGED <<pc, loc>> \/ Return(f))
    <3>1. \A g \in Fibers : g # f => pc'[g] = pc[g] /\ loc'[g] = loc[g]
      BY <1>0, <2>3, Returns
    <3>2. Emptied(f)' /\ pc[f] # "wait"
      BY <1>0, <2>2, <2>3, Returns DEF Emptied
    <3>. QED
      BY <1>0, <1>1, <2>2, <2>3, <3>1, <3>2
  <2>4. CASE /\ n \in open /\ loc' = loc /\ m_events' = [m_events EXCEPT ![n][v] = f]
             /\ watched' = [watched EXCEPT ![n] = @ \cup {v}]
             /\ pc' = [pc EXCEPT ![f] = "wait"]
    <3>1. /\ m_events'[n][v] = f /\ v \in watched'[n] /\ pc'[f] = "wait"
          /\ \A fd \in Fds, e \in Events : ~(fd = n /\ e = v) =>
                m_events'[fd][e] = m_events[fd][e] /\ (e \in watched[fd] => e \in watched'[fd])
          /\ \A g \in Fibers : g # f => pc'[g] = pc[g]
      BY <1>0, <2>4 DEF TypeOK
    <3>2. ASSUME NEW fd \in Fds, NEW e \in Events, m_events'[fd][e] \in Fibers PROVE WatchedAt(fd, e)'
      <4>1. CASE fd = n /\ e = v
        BY <2>1, <2>2, <2>4, <3>1, <4>1 DEF WatchedAt
      <4>2. CASE ~(fd = n /\ e = v)
        <5>1. WatchedAt(fd, e)
          BY <1>0, WatchedEach DEF WatchInv
        <5>2. PICK g \in Fibers : g = m_events[fd][e] /\ g = m_events'[fd][e]
          BY <3>1, <3>2, <4>2
        <5>3. pc[g] = "wait" /\ g # f
          BY <2>2, <5>1, <5>2 DEF WatchedAt
        <5>. QED
          BY <2>2, <2>4, <3>1, <4>2, <5>1, <5>2, <5>3 DEF WatchedAt
      <4>. QED
        BY <4>1, <4>2
    <3>3. StaysWatched'
      <4>1. \A fd \in Fds, e \in Events : WatchedAt(fd, e)'
        BY <3>2 DEF WatchedAt
      <4>2. \A fd \in Fds, e \in Events : m_events'[fd][e] \in Fibers <=> m_events'[fd][e] # NoFiber
        BY <1>0, HookAssumption DEF TypeOK
      <4>. QED
        BY <4>1, <4>2 DEF StaysWatched, WatchedAt
    <3>4. ASSUME NEW g \in Fibers PROVE Emptied(g)'
      <4>1. g # f => pc[g] \in Off
        BY <1>0, <2>2 DEF OneActor, Off
      <4>2. pc'[g] \in Off
        BY <3>1, <4>1 DEF Off
      <4>. QED
        BY <4>2 DEF Emptied, Off
    <3>. QED
      BY <3>3, <3>4 DEF WatchInv
  <2>. QED
    BY <1>16, <2>1, <2>3, <2>4 DEF AddEvent, Goto
<1>17. ASSUME NEW fd \in Fds, NEW e \in Events, Arrive(fd, e) PROVE WatchInv'
  BY <1>4, <1>17 DEF Arrive, iom, fibers
<1>18. CASE UNCHANGED vars
  BY <1>4, <1>18 DEF vars, kernel, iom, fibers
<1>. QED
  BY <1>3, <1>5, <1>6, <1>7, <1>8, <1>9, <1>10, <1>11, <1>12, <1>13, <1>14, <1>15, <1>16, <1>17,
     <1>18, HookAssumption
  DEF Next, Step, UserStep, FiberStep, IdleStep, Over

\* With one worker: whoever is registered waits for an event of a descriptor
\* that is open and watched; close leaves nobody behind.
THEOREM StaysWatchedCorrect ==
    ASSUME Workers = 1
    PROVE  Spec => []StaysWatched
<1>1. Init => TokenInv /\ CtxInv /\ SoloInv /\ WatchInv
  BY TypedInit, WokenInit, CtxInit, SoloInit, WatchInit DEF TokenInv
<1>2. WatchInv => StaysWatched
  BY DEF WatchInv
<1>. QED
  BY <1>1, <1>2, TokenNext, CtxNext, SoloNext, WatchNext, PTL DEF Spec
=============================================================================
