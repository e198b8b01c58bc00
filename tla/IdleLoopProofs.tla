--------------------------- MODULE IdleLoopProofs ---------------------------
(***************************************************************************)
(* Theorems about IdleLoop, for every set of workers, every workload and   *)
(* every bound.                                                            *)
(***************************************************************************)
EXTENDS IdleLoop, TLAPS, FiniteSetTheorems, WellFoundedInduction

Places == InIdle \cup {"scan", "got", "run", "none", "exited"}
IdleThreads == {t \in Threads : pc[t] \in InIdle}

\* The inductive invariant: places are known, and the count is exact.
IdleInv == pc \in [Threads -> Places] /\ IdleCountExact

-----------------------------------------------------------------------------
\* A thread that moves within idle(), or outside of it, changes nothing.
LEMMA MoveKeepsIdle ==
    ASSUME IdleInv, NEW t \in Threads, NEW l \in Places, Goto(t, l),
           pc[t] \in InIdle <=> l \in InIdle,
           UNCHANGED m_idle_thread_count
    PROVE  IdleInv'
<1>1. pc' \in [Threads -> Places]
  BY DEF IdleInv, Goto
<1>2. \A u \in Threads : pc'[u] \in InIdle <=> pc[u] \in InIdle
  BY DEF IdleInv, Goto
<1>3. IdleThreads' = IdleThreads
  BY <1>2 DEF IdleThreads
<1>. QED
  BY <1>1, <1>3 DEF IdleInv, IdleCountExact, IdleThreads

\* A thread that enters its idle fiber counts itself.
LEMMA EnterCounts ==
    ASSUME IdleInv, NEW t \in Threads, pc[t] = "none", Goto(t, "ask"),
           m_idle_thread_count' = m_idle_thread_count + 1
    PROVE  IdleInv'
<1>1. pc' \in [Threads -> Places]
  BY DEF IdleInv, Goto, Places, InIdle
<1>2. IdleThreads' = IdleThreads \cup {t} /\ t \notin IdleThreads
  BY DEF IdleInv, Goto, IdleThreads, InIdle
<1>3. IsFiniteSet(IdleThreads)
  BY IdleLoopAssumption, FS_Subset, IdleThreads \subseteq Threads DEF IdleThreads
<1>4. Cardinality(IdleThreads') = Cardinality(IdleThreads) + 1
  BY <1>2, <1>3, FS_AddElement
<1>. QED
  BY <1>1, <1>4 DEF IdleInv, IdleCountExact, IdleThreads

\* A thread that is back from its idle fiber counts itself out.
LEMMA LeaveCounts ==
    ASSUME IdleInv, NEW t \in Threads, LeaveIdle(t)
    PROVE  IdleInv'
<1>1. pc[t] = "leave" /\ Goto(t, "scan")
  BY DEF LeaveIdle, At
<1>2. pc' \in [Threads -> Places]
  BY <1>1 DEF IdleInv, Goto, Places
<1>3. IdleThreads' = IdleThreads \ {t} /\ t \in IdleThreads
  BY <1>1 DEF IdleInv, Goto, IdleThreads, InIdle
<1>4. IsFiniteSet(IdleThreads)
  BY IdleLoopAssumption, FS_Subset, IdleThreads \subseteq Threads DEF IdleThreads
<1>5. Cardinality(IdleThreads') = Cardinality(IdleThreads) - 1
  BY <1>3, <1>4, FS_RemoveElement
<1>6. m_idle_thread_count' = m_idle_thread_count - 1
  BY DEF LeaveIdle, OneIdleLess
<1>. QED
  BY <1>2, <1>5, <1>6 DEF IdleInv, IdleCountExact, IdleThreads

\* Steps that move no thread.
LEMMA StillKeepsIdle ==
    ASSUME IdleInv, UNCHANGED <<pc, m_idle_thread_count>>
    PROVE  IdleInv'
  BY DEF IdleInv, IdleCountExact

-----------------------------------------------------------------------------
\* Every action of the pool keeps m_idle_thread_count exact.
LEMMA IdleStep ==
    ASSUME IdleInv, [Next]_vars
    PROVE  IdleInv'
<1>1. ASSUME NEW a \in Actors, Tickle(a) PROVE IdleInv'
  BY <1>1, StillKeepsIdle DEF Tickle
<1>2. ASSUME NEW t \in Threads, ThreadStep(t) PROVE IdleInv'
  <2>1. CASE Take(t)
    BY <2>1, MoveKeepsIdle DEF Take, At, Places, InIdle
  <2>2. CASE FindNothing(t)
    BY <2>2, MoveKeepsIdle DEF FindNothing, At, Places, InIdle
  <2>3. CASE RunTask(t)
    BY <2>3, MoveKeepsIdle DEF RunTask, At, Places, InIdle
  <2>4. CASE EndTask(t)
    BY <2>4, MoveKeepsIdle DEF EndTask, At, Places, InIdle
  <2>5. CASE GoIdle(t)
    <3>1. CASE term[t]
      BY <2>5, <3>1, MoveKeepsIdle DEF GoIdle, At, Places, InIdle
    <3>2. CASE ~term[t]
      BY <2>5, <3>2, EnterCounts DEF GoIdle, At
    <3>. QED
      BY <3>1, <3>2
  <2>6. CASE AskTimeout(t)
    BY <2>6, MoveKeepsIdle DEF AskTimeout, At, Places, InIdle
  <2>7. CASE StopOrSleep(t)
    <3>1. CASE MayStop(t)
      BY <2>7, <3>1, MoveKeepsIdle DEF StopOrSleep, At, Places, InIdle
    <3>2. CASE ~MayStop(t)
      BY <2>7, <3>2, MoveKeepsIdle DEF StopOrSleep, At, Places, InIdle
    <3>. QED
      BY <3>1, <3>2
  <2>8. CASE EpollReports(t)
    BY <2>8, MoveKeepsIdle DEF EpollReports, At, Places, InIdle
  <2>9. CASE EpollTimesOut(t)
    BY <2>9, MoveKeepsIdle DEF EpollTimesOut, At, Places, InIdle
  <2>10. CASE ListExpired(t)
    BY <2>10, MoveKeepsIdle DEF ListExpired, At, Places, InIdle
  <2>11. CASE ScheduleCbs(t)
    <3>1. CASE tickled[t]
      BY <2>11, <3>1, MoveKeepsIdle DEF ScheduleCbs, At, Places, InIdle
    <3>2. CASE ~tickled[t]
      BY <2>11, <3>2, MoveKeepsIdle DEF ScheduleCbs, At, Places, InIdle
    <3>. QED
      BY <3>1, <3>2
  <2>12. CASE Drain(t)
    BY <2>12, MoveKeepsIdle DEF Drain, At, Places, InIdle
  <2>13. CASE LeaveIdle(t)
    BY <2>13, LeaveCounts
  <2>. QED
    BY <1>2, <2>1, <2>2, <2>3, <2>4, <2>5, <2>6, <2>7, <2>8, <2>9, <2>10,
       <2>11, <2>12, <2>13 DEF ThreadStep
<1>3. ASSUME NEW t \in Threads, TaskSchedules(t) \/ TaskAddsTimer(t) PROVE IdleInv'
  BY <1>3, StillKeepsIdle DEF TaskSchedules, TaskAddsTimer, AddTask, AddTimer
<1>4. ASSUME NEW t \in Threads, EpollInterrupted(t) PROVE IdleInv'
  BY <1>4, StillKeepsIdle DEF EpollInterrupted
<1>5. CASE ForeignSchedule \/ ForeignAddTimer
  BY <1>5, StillKeepsIdle DEF ForeignSchedule, ForeignAddTimer, AddTask, AddTimer
<1>6. CASE Stop \/ Join \/ Tick
  BY <1>6, StillKeepsIdle DEF Stop, Join, Tick
<1>7. CASE UNCHANGED vars
  BY <1>7, StillKeepsIdle DEF vars
<1>. QED
  BY <1>1, <1>2, <1>3, <1>4, <1>5, <1>6, <1>7 DEF Next, Over

LEMMA InitIdle == Init => IdleInv
<1>1. Init => pc \in [Threads -> Places] /\ IdleThreads = {}
  BY DEF Init, Places, InIdle, IdleThreads
<1>. QED
  BY <1>1, FS_EmptySet DEF Init, IdleInv, IdleCountExact, IdleThreads

\* m_idle_thread_count, on which tickle() decides whether to write, is always
\* exactly the number of threads inside their idle fibers.
THEOREM IdleCountCorrect == Spec => []IdleCountExact
<1>1. IdleInv /\ [Next]_vars => IdleInv'
  BY IdleStep
<1>2. IdleInv => IdleCountExact
  BY DEF IdleInv
<1>. QED
  BY InitIdle, <1>1, <1>2, PTL DEF Spec

-----------------------------------------------------------------------------
(* Tasks *)

\* Thread t scans the list again before it sleeps or exits.
WillScan(t) == pc[t] \in {"scan", "got", "run", "awake", "list", "drain", "leave"}

\* Functions scheduled by the pool's own threads are never left alone.
TaskInv ==
    /\ IdleInv
    /\ m_fibers \in Nat
    /\ cbs \in [Threads -> Nat]
    /\ IsFiniteSet(DOMAIN timers)
    /\ m_fibers > 0 => \E t \in Threads : WillScan(t)

LEMMA FiniteTimers == IsFiniteSet(DOMAIN timers) /\ [Next]_vars => IsFiniteSet(DOMAIN timers')
<1>. SUFFICES ASSUME IsFiniteSet(DOMAIN timers), [Next]_vars PROVE IsFiniteSet(DOMAIN timers')
  OBVIOUS
<1>1. ASSUME NEW a, NEW ms, AddTimer(a, ms) PROVE IsFiniteSet(DOMAIN timers')
  <2>1. DOMAIN timers' = DOMAIN timers \cup {added + 1}
    BY <1>1 DEF AddTimer
  <2>. QED
    BY <2>1, FS_AddElement
<1>2. ASSUME NEW t, ListExpired(t) PROVE IsFiniteSet(DOMAIN timers')
  <2>1. DOMAIN timers' \subseteq DOMAIN timers
    BY <1>2 DEF ListExpired, Restrict
  <2>. QED
    BY <2>1, FS_Subset
<1>3. ASSUME Tick PROVE DOMAIN timers' = DOMAIN timers
  BY <1>3 DEF Tick
<1>4. ASSUME NEW t, ThreadStep(t), ~ListExpired(t) PROVE UNCHANGED timers
  BY <1>4 DEF ThreadStep, Take, FindNothing, RunTask, EndTask, GoIdle, AskTimeout, StopOrSleep,
     EpollReports, EpollTimesOut, ScheduleCbs, Drain, LeaveIdle
<1>5. ASSUME NEW t, TaskSchedules(t) \/ EpollInterrupted(t) \/ Tickle(t) PROVE UNCHANGED timers
  BY <1>5 DEF TaskSchedules, AddTask, EpollInterrupted, Tickle
<1>6. CASE ForeignSchedule \/ Stop \/ Join \/ UNCHANGED vars
  <2>1. UNCHANGED timers
    BY <1>6 DEF ForeignSchedule, AddTask, Stop, Join, vars
  <2>. QED
    BY <2>1
<1>. QED
  BY <1>1, <1>2, <1>3, <1>4, <1>5, <1>6 DEF Next, Over, TaskAddsTimer, ForeignAddTimer

\* A step of t to l that leaves tasks only where t, or somebody else, scans.
LEMMA MoveKeepsTasks ==
    ASSUME TaskInv, NEW t \in Threads, NEW l, Goto(t, l),
           IdleInv', m_fibers' \in Nat, cbs' \in [Threads -> Nat], IsFiniteSet(DOMAIN timers'),
           \/ l \in {"scan", "got", "run", "awake", "list", "drain", "leave"}
           \/ m_fibers' = 0
           \/ ~WillScan(t) /\ UNCHANGED m_fibers
    PROVE  TaskInv'
<1>1. pc'[t] = l /\ \A u \in Threads \ {t} : pc'[u] = pc[u]
  BY DEF TaskInv, IdleInv, Goto
<1>2. CASE l \in {"scan", "got", "run", "awake", "list", "drain", "leave"}
  <2>1. WillScan(t)'
    BY <1>1, <1>2 DEF WillScan
  <2>. QED
    BY <2>1 DEF TaskInv
<1>3. CASE m_fibers' = 0
  BY <1>3 DEF TaskInv
<1>4. CASE ~WillScan(t) /\ UNCHANGED m_fibers
  <2>1. ASSUME NEW u \in Threads, WillScan(u) PROVE WillScan(u)'
    BY <1>1, <1>4, <2>1 DEF WillScan
  <2>. QED
    BY <1>4, <2>1 DEF TaskInv
<1>. QED
  BY <1>2, <1>3, <1>4

\* Every action keeps what is scheduled in sight of a thread that will scan.
LEMMA TaskStep ==
    ASSUME "task" \notin ForeignOps, TaskInv, [Next]_vars
    PROVE  TaskInv'
<1>. USE DEF queue, wait, wakeup, stop, bounds
<1>0. /\ IdleInv' /\ m_fibers \in Nat /\ cbs \in [Threads -> Nat]
      /\ IsFiniteSet(DOMAIN timers) /\ IsFiniteSet(DOMAIN timers')
  BY IdleStep, FiniteTimers DEF TaskInv
<1>1. ASSUME UNCHANGED <<pc, m_fibers, cbs>> PROVE TaskInv'
  BY <1>0, <1>1 DEF TaskInv, WillScan
<1>2. ASSUME NEW t \in Threads, ThreadStep(t) PROVE TaskInv'
  <2>1. CASE Take(t)
    BY <1>0, <2>1, MoveKeepsTasks DEF Take
  <2>2. CASE FindNothing(t)
    BY <1>0, <2>2, MoveKeepsTasks DEF FindNothing
  <2>3. CASE RunTask(t)
    BY <1>0, <2>3, MoveKeepsTasks DEF RunTask
  <2>4. CASE EndTask(t)
    BY <1>0, <2>4, MoveKeepsTasks DEF EndTask
  <2>5. CASE GoIdle(t)
    <3>1. ~WillScan(t)
      BY <2>5 DEF GoIdle, At, WillScan
    <3>2. PICK l : Goto(t, l)
      BY <2>5 DEF GoIdle
    <3>. QED
      BY <1>0, <2>5, <3>1, <3>2, MoveKeepsTasks DEF GoIdle
  <2>6. CASE AskTimeout(t)
    <3>1. ~WillScan(t)
      BY <2>6 DEF AskTimeout, At, WillScan
    <3>. QED
      BY <1>0, <2>6, <3>1, MoveKeepsTasks DEF AskTimeout
  <2>7. CASE StopOrSleep(t)
    <3>1. ~WillScan(t)
      BY <2>7 DEF StopOrSleep, At, WillScan
    <3>2. PICK l : Goto(t, l)
      BY <2>7 DEF StopOrSleep
    <3>. QED
      BY <1>0, <2>7, <3>1, <3>2, MoveKeepsTasks DEF StopOrSleep
  <2>8. CASE EpollReports(t) \/ EpollTimesOut(t)
    BY <1>0, <2>8, MoveKeepsTasks DEF EpollReports, EpollTimesOut
  <2>9. CASE ListExpired(t)
    <3>1. cbs' = [cbs EXCEPT ![t] = Cardinality({i \in DOMAIN timers : timers[i] = 0})]
      BY <2>9 DEF ListExpired
    <3>2. Cardinality({i \in DOMAIN timers : timers[i] = 0}) \in Nat
      BY <1>0, FS_Subset, FS_CardinalityType
    <3>. QED
      BY <1>0, <2>9, <3>1, <3>2, MoveKeepsTasks DEF ListExpired
  <2>10. CASE ScheduleCbs(t)
    <3>1. /\ m_fibers' = m_fibers + cbs[t]
          /\ cbs' = [cbs EXCEPT ![t] = 0]
          /\ Goto(t, IF tickled[t] THEN "drain" ELSE "leave")
      BY <2>10 DEF ScheduleCbs, Schedule
    <3>2. m_fibers' \in Nat /\ cbs' \in [Threads -> Nat]
      BY <1>0, <3>1
    <3>3. PICK l : l = IF tickled[t] THEN "drain" ELSE "leave"
      OBVIOUS
    <3>. QED
      BY <1>0, <3>1, <3>2, <3>3, MoveKeepsTasks
  <2>11. CASE Drain(t)
    BY <1>0, <2>11, MoveKeepsTasks DEF Drain
  <2>12. CASE LeaveIdle(t)
    BY <1>0, <2>12, MoveKeepsTasks DEF LeaveIdle
  <2>. QED
    BY <1>2, <2>1, <2>2, <2>3, <2>4, <2>5, <2>6, <2>7, <2>8, <2>9, <2>10,
       <2>11, <2>12 DEF ThreadStep
<1>3. ASSUME NEW t \in Threads, TaskSchedules(t) PROVE TaskInv'
  <2>1. /\ pc[t] = "run" /\ UNCHANGED <<pc, cbs>> /\ m_fibers' = m_fibers + 1
    BY <1>3 DEF TaskSchedules, AddTask, Schedule, At
  <2>2. WillScan(t)'
    BY <2>1 DEF WillScan
  <2>. QED
    BY <1>0, <2>1, <2>2 DEF TaskInv
<1>4. ASSUME NEW t \in Threads, TaskAddsTimer(t) \/ EpollInterrupted(t) PROVE TaskInv'
  BY <1>1, <1>4 DEF TaskAddsTimer, AddTimer, EpollInterrupted
<1>5. ASSUME NEW a \in Actors, Tickle(a) PROVE TaskInv'
  BY <1>1, <1>5 DEF Tickle
<1>6. CASE ForeignSchedule
  BY <1>6 DEF ForeignSchedule
<1>7. CASE ForeignAddTimer \/ Stop \/ Join \/ Tick
  BY <1>1, <1>7 DEF ForeignAddTimer, AddTimer, Stop, Join, Tick
<1>8. CASE UNCHANGED vars
  BY <1>1, <1>8 DEF vars
<1>. QED
  BY <1>2, <1>3, <1>4, <1>5, <1>6, <1>7, <1>8 DEF Next, Over

\* The threads never all sleep while a task waits, however many they are, as
\* long as only the pool's own threads schedule (a task of a foreign thread
\* can be missed until the next timeout: tickle() sees no idle thread while
\* one is between its scan and its idle fiber).
THEOREM NoLostTaskCorrect ==
    ASSUME "task" \notin ForeignOps PROVE Spec => []NoLostTask
<1>1. Init => TaskInv
  <2>1. Init => IdleInv
    BY InitIdle
  <2>2. Init => IsFiniteSet(DOMAIN timers)
    BY FS_EmptySet DEF Init
  <2>. QED
    BY <2>1, <2>2 DEF Init, TaskInv
<1>2. TaskInv /\ [Next]_vars => TaskInv'
  BY TaskStep
<1>3. TaskInv => NoLostTask
  BY DEF TaskInv, NoLostTask, Quiet, WillScan
<1>. QED
  BY <1>1, <1>2, <1>3, PTL DEF Spec

-----------------------------------------------------------------------------
(* Timers *)

\* The clock's variables are what they should be.
Timed ==
    /\ \A i \in DOMAIN timers : timers[i] \in Nat
    /\ term \in [Threads -> BOOLEAN]
    /\ next_timeout \in [Threads -> Nat \cup {None}]
    /\ until \in [Threads -> Nat]
    /\ owes \in [Actors -> Nat]
    /\ pipe \in BOOLEAN /\ edge \in BOOLEAN

\* Thread t reads m_timers again before it sleeps.
WillAsk(t) ==
    ~term[t] /\ pc[t] \in {"scan", "got", "run", "none", "ask", "awake", "list", "drain", "leave"}

\* Thread t will be awake when timer i is due.
Covers(t, i) ==
    \/ WillAsk(t)
    \/ pc[t] = "asked" /\ next_timeout[t] # None /\ SleepTime(t) <= timers[i]
    \/ pc[t] = "sleep" /\ until[t] <= timers[i]

\* A tickle is on its way, or in the pipe and not yet reported.
TickleComing == (\E a \in Actors : owes[a] > 0) \/ (pipe /\ edge)

\* Idle fibers that have ended: the thread never sleeps again.
TermPlaces ==
    \A t \in Threads : /\ term[t] => pc[t] \notin InIdle \ {"leave"}
                       /\ pc[t] = "exited" => term[t]

TimerInv ==
    /\ IdleInv /\ Timed /\ TermPlaces
    /\ \/ TickleComing
       \/ \A t \in Threads : term[t]
       \/ \A i \in DOMAIN timers : \E t \in Threads : Covers(t, i)

\* The first timer is the least.
LEMMA MinOfNats ==
    ASSUME NEW S, S \subseteq Nat, S # {} PROVE Min(S) \in S /\ \A x \in S : Min(S) <= x
<1>1. PICK x \in S : \A y \in S : ~ (<<y, x>> \in OpToRel(<, Nat))
  BY NatLessThanWellFounded, WFMin
<1>2. \A y \in S : ~(y < x)
  BY <1>1 DEF OpToRel
<1>3. \A y \in S : x <= y
  BY <1>2
<1>. QED
  BY <1>3 DEF Min

\* What get_next_timeout returns.
LEMMA NextTimeoutFacts ==
    ASSUME Timed
    PROVE  /\ DOMAIN timers = {} => NextTimeout = None
           /\ DOMAIN timers # {} =>
                NextTimeout \in Nat /\ \A i \in DOMAIN timers : NextTimeout <= timers[i]
<1>1. CASE DOMAIN timers = {}
  BY <1>1 DEF NextTimeout
<1>2. CASE DOMAIN timers # {}
  <2>1. Range(timers) \subseteq Nat /\ Range(timers) # {} /\ NextTimeout = Min(Range(timers))
    BY <1>2 DEF Timed, Range, NextTimeout
  <2>2. NextTimeout \in Range(timers) /\ \A x \in Range(timers) : NextTimeout <= x
    BY <2>1, MinOfNats
  <2>. QED
    BY <1>2, <2>1, <2>2 DEF Range
<1>. QED
  BY <1>1, <1>2

\* A step of t to l after which t covers what it covered, and t itself looks
\* at the timers again where it used up a tickle.
LEMMA MoveKeepsTimers ==
    ASSUME TimerInv, NEW t \in Threads, NEW l, Goto(t, l), IdleInv', Timed', TermPlaces',
           TickleComing => TickleComing' \/ WillAsk(t)',
           \A u \in Threads \ {t} : /\ term'[u] = term[u] /\ until'[u] = until[u]
                                    /\ next_timeout'[u] = next_timeout[u],
           term[t] => term'[t],
           \A i \in DOMAIN timers' : i \in DOMAIN timers /\ timers'[i] = timers[i],
           \A i \in DOMAIN timers' : Covers(t, i) => Covers(t, i)'
    PROVE  TimerInv'
<1>1. pc'[t] = l /\ \A u \in Threads \ {t} : pc'[u] = pc[u]
  BY DEF TimerInv, IdleInv, Goto
<1>2. CASE WillAsk(t)'
  BY <1>2 DEF TimerInv, Covers
<1>3. CASE TickleComing
  BY <1>2, <1>3 DEF TimerInv
<1>4. CASE \A u \in Threads : term[u]
  BY <1>4 DEF TimerInv
<1>5. CASE \A i \in DOMAIN timers : \E u \in Threads : Covers(u, i)
  <2>1. ASSUME NEW i \in DOMAIN timers' PROVE \E u \in Threads : Covers(u, i)'
    <3>1. PICK u \in Threads : Covers(u, i)
      BY <1>5
    <3>2. CASE u = t
      BY <3>1, <3>2
    <3>3. CASE u # t
      <4>1. Covers(u, i)'
        BY <1>1, <3>1, <3>3 DEF Covers, WillAsk, SleepTime
      <4>. QED
        BY <4>1
    <3>. QED
      BY <3>2, <3>3
  <2>. QED
    BY <2>1 DEF TimerInv
<1>. QED
  BY <1>3, <1>4, <1>5 DEF TimerInv

\* schedule and add_timer only add to the tickles that are owed.
LEMMA OweKeeps ==
    ASSUME Timed, NEW a \in Actors, owes[a] = 0, NEW need \in BOOLEAN, Owe(a, need)
    PROVE  /\ owes' \in [Actors -> Nat]
           /\ \A b \in Actors : owes[b] > 0 => owes'[b] > 0
           /\ need => owes'[a] > 0
  BY DEF Timed, Owe

\* A new timer is announced by a tickle, or comes after one that is covered.
LEMMA AddTimerKeeps ==
    ASSUME TimerInv, IdleInv', NEW a \in Actors, owes[a] = 0, NEW ms \in Delays, AddTimer(a, ms)
    PROVE  TimerInv'
<1>. USE IdleLoopAssumption
<1>1. ms \in Nat /\ UNCHANGED <<pc, term, next_timeout, until, pipe, edge>>
  BY DEF AddTimer, wait, wakeup
<1>2. PICK need \in BOOLEAN : need = AtFront(ms)
  BY DEF AtFront
<1>3. /\ owes' \in [Actors -> Nat]
      /\ \A b \in Actors : owes[b] > 0 => owes'[b] > 0
      /\ need => owes'[a] > 0
  <2>1. Owe(a, need)
    BY <1>2 DEF AddTimer
  <2>. QED
    BY <2>1, OweKeeps DEF TimerInv
<1>4. /\ DOMAIN timers' = DOMAIN timers \cup {added + 1}
      /\ \A i \in DOMAIN timers' : timers'[i] = IF i = added + 1 THEN ms ELSE timers[i]
  BY DEF AddTimer
<1>5. Timed' /\ TermPlaces'
  <2>1. \A i \in DOMAIN timers' : timers'[i] \in Nat
    BY <1>1, <1>4 DEF TimerInv, Timed
  <2>2. Timed'
    BY <1>1, <1>3, <1>4, <2>1 DEF TimerInv, Timed
  <2>3. TermPlaces'
    BY <1>1 DEF TimerInv, TermPlaces
  <2>. QED
    BY <2>2, <2>3
<1>6. CASE TickleComing \/ AtFront(ms)
  <2>1. TickleComing'
    BY <1>1, <1>2, <1>3, <1>6 DEF TickleComing
  <2>. QED
    BY <1>5, <2>1 DEF TimerInv
<1>7. CASE \A u \in Threads : term[u]
  BY <1>1, <1>5, <1>7 DEF TimerInv
<1>8. CASE ~AtFront(ms) /\ \A i \in DOMAIN timers : \E u \in Threads : Covers(u, i)
  <2>1. PICK k \in DOMAIN timers : ~(ms < timers[k])
    BY <1>8 DEF AtFront
  <2>2. timers[k] \in Nat /\ timers[k] <= ms
    BY <1>1, <2>1 DEF TimerInv, Timed
  <2>3. ASSUME NEW i \in DOMAIN timers' PROVE \E u \in Threads : Covers(u, i)'
    <3>1. PICK j \in DOMAIN timers : timers[j] <= timers'[i]
      <4>1. CASE i = added + 1
        BY <1>4, <2>2, <4>1
      <4>2. CASE i # added + 1
        BY <1>4, <4>2 DEF TimerInv, Timed
      <4>. QED
        BY <4>1, <4>2
    <3>2. timers[j] \in Nat /\ timers'[i] \in Nat
      BY <1>5 DEF TimerInv, Timed
    <3>3. PICK u \in Threads : Covers(u, j)
      BY <1>8
    <3>4. until[u] \in Nat /\ next_timeout[u] \in Nat \cup {None}
      BY DEF TimerInv, Timed
    <3>5. Covers(u, i)'
      BY <1>1, <3>1, <3>2, <3>3, <3>4 DEF Covers, WillAsk, SleepTime, None
    <3>. QED
      BY <3>5
  <2>. QED
    BY <1>5, <2>3 DEF TimerInv
<1>. QED
  BY <1>6, <1>7, <1>8 DEF TimerInv

\* The steps of run() and idle() that change neither the timers nor what t
\* knows of them, taken by a thread that looks at them again afterwards or
\* whose idle fiber has ended.
LEMMA PlainMove ==
    ASSUME TimerInv, NEW t \in Threads, NEW l \in Places, Goto(t, l), IdleInv',
           UNCHANGED <<timers, term, next_timeout, until, pipe, edge>>,
           owes' \in [Actors -> Nat], \A b \in Actors : owes[b] > 0 => owes'[b] > 0,
           \/ term[t] /\ l \notin InIdle \ {"leave"}
           \/ ~term[t] /\ l \in {"scan", "got", "run", "none", "ask", "awake", "list", "drain", "leave"}
    PROVE  TimerInv'
<1>1. pc'[t] = l /\ \A u \in Threads \ {t} : pc'[u] = pc[u]
  BY DEF TimerInv, IdleInv, Goto
<1>2. Timed'
  BY DEF TimerInv, Timed
<1>3. TermPlaces'
  BY <1>1 DEF TimerInv, TermPlaces, InIdle
<1>4. TickleComing => TickleComing'
  BY DEF TickleComing
<1>5. \A i \in DOMAIN timers' : Covers(t, i) => Covers(t, i)'
  BY <1>1 DEF Covers, WillAsk, TimerInv, TermPlaces, InIdle
<1>. QED
  BY <1>2, <1>3, <1>4, <1>5, MoveKeepsTimers

\* Scheduler::run.
LEMMA RunKeepsTimers ==
    ASSUME TimerInv, IdleInv', NEW t \in Threads,
           \/ Take(t) \/ FindNothing(t) \/ RunTask(t) \/ EndTask(t) \/ GoIdle(t) \/ LeaveIdle(t)
    PROVE  TimerInv'
<1>. USE DEF queue, wait, wakeup, At, InIdle
<1>0. /\ term[t] \in BOOLEAN /\ owes \in [Actors -> Nat] /\ t \in Actors
      /\ {"scan", "got", "run", "none", "ask", "exited"} \subseteq Places
  BY DEF TimerInv, Timed, Actors, Places
<1>1. CASE Take(t)
  <2>1. PICK need \in BOOLEAN : need <=> m_fibers > 1
    OBVIOUS
  <2>2. Owe(t, need) /\ owes[t] = 0
    BY <1>1, <2>1 DEF Take, Owe
  <2>3. owes' \in [Actors -> Nat] /\ \A b \in Actors : owes[b] > 0 => owes'[b] > 0
    BY <1>0, <2>2, OweKeeps DEF TimerInv
  <2>. QED
    BY <1>0, <1>1, <2>3, PlainMove DEF Take
<1>2. CASE FindNothing(t)
  BY <1>0, <1>2, PlainMove DEF FindNothing
<1>3. CASE RunTask(t)
  BY <1>0, <1>3, PlainMove DEF RunTask
<1>4. CASE EndTask(t)
  BY <1>0, <1>4, PlainMove DEF EndTask
<1>5. CASE GoIdle(t)
  <2>1. CASE term[t]
    BY <1>0, <1>5, <2>1, PlainMove DEF GoIdle
  <2>2. CASE ~term[t]
    BY <1>0, <1>5, <2>2, PlainMove DEF GoIdle
  <2>. QED
    BY <2>1, <2>2
<1>6. CASE LeaveIdle(t)
  BY <1>0, <1>6, PlainMove DEF LeaveIdle
<1>. QED
  BY <1>1, <1>2, <1>3, <1>4, <1>5, <1>6

\* What get_next_timeout returns covers every timer.
LEMMA AskKeepsTimers ==
    ASSUME TimerInv, IdleInv', NEW t \in Threads, AskTimeout(t) PROVE TimerInv'
<1>. USE DEF wakeup, At
<1>1. /\ pc[t] = "ask" /\ Goto(t, "asked") /\ pc'[t] = "asked"
      /\ \A u \in Threads \ {t} : pc'[u] = pc[u]
      /\ UNCHANGED <<timers, term, until, pipe, edge, owes>>
      /\ next_timeout' = [next_timeout EXCEPT ![t] = NextTimeout]
  BY DEF AskTimeout, Goto, TimerInv, IdleInv
<1>2. /\ DOMAIN timers = {} => NextTimeout = None
      /\ DOMAIN timers # {} => NextTimeout \in Nat /\ \A i \in DOMAIN timers : NextTimeout <= timers[i]
  BY NextTimeoutFacts DEF TimerInv
<1>3. next_timeout'[t] = NextTimeout /\ \A u \in Threads \ {t} : next_timeout'[u] = next_timeout[u]
  BY <1>1 DEF TimerInv, Timed
<1>4. Timed'
  BY <1>1, <1>2 DEF TimerInv, Timed
<1>5. TermPlaces'
  BY <1>1 DEF TimerInv, TermPlaces, InIdle
<1>6. \A i \in DOMAIN timers' : Covers(t, i)'
  <2>. SUFFICES ASSUME NEW i \in DOMAIN timers PROVE Covers(t, i)'
    BY <1>1
  <2>1. next_timeout'[t] \in Nat /\ next_timeout'[t] <= timers[i] /\ timers[i] \in Nat
    BY <1>2, <1>3 DEF TimerInv, Timed
  <2>2. next_timeout'[t] # None
    BY <2>1 DEF None
  <2>3. SleepTime(t)' <= timers[i]
    BY <2>1, <2>2, IdleLoopAssumption DEF SleepTime
  <2>. QED
    BY <1>1, <2>2, <2>3 DEF Covers
<1>7. TickleComing => TickleComing'
  BY <1>1 DEF TickleComing
<1>. QED
  BY <1>1, <1>3, <1>4, <1>5, <1>6, <1>7, MoveKeepsTimers

\* idle() ends only where no timer was seen, and sleeps no longer than asked.
LEMMA SleepKeepsTimers ==
    ASSUME TimerInv, IdleInv', NEW t \in Threads, StopOrSleep(t) PROVE TimerInv'
<1>. USE DEF wakeup, At
<1>1. /\ pc[t] = "asked" /\ UNCHANGED <<timers, next_timeout, pipe, edge, owes>>
      /\ next_timeout[t] \in Nat \cup {None}
  BY DEF StopOrSleep, TimerInv, Timed
<1>2. TickleComing => TickleComing'
  BY <1>1 DEF TickleComing
<1>3. CASE MayStop(t)
  <2>1. /\ Goto(t, "leave") /\ pc'[t] = "leave" /\ \A u \in Threads \ {t} : pc'[u] = pc[u]
        /\ term'[t] /\ term' \in [Threads -> BOOLEAN]
        /\ \A u \in Threads \ {t} : term'[u] = term[u]
        /\ UNCHANGED until
    BY <1>3 DEF StopOrSleep, Goto, TimerInv, IdleInv, Timed
  <2>2. Timed'
    BY <1>1, <2>1 DEF TimerInv, Timed
  <2>3. TermPlaces'
    BY <2>1 DEF TimerInv, TermPlaces, InIdle
  <2>4. \A i \in DOMAIN timers' : ~Covers(t, i)
    BY <1>1, <1>3 DEF Covers, WillAsk, MayStop
  <2>. QED
    BY <1>1, <1>2, <2>1, <2>2, <2>3, <2>4, MoveKeepsTimers
<1>4. CASE ~MayStop(t)
  <2>0. SleepTime(t) \in Nat
    BY <1>1, IdleLoopAssumption DEF SleepTime
  <2>1. /\ Goto(t, "sleep") /\ pc'[t] = "sleep" /\ \A u \in Threads \ {t} : pc'[u] = pc[u]
        /\ until'[t] = SleepTime(t) /\ until' \in [Threads -> Nat]
        /\ \A u \in Threads \ {t} : until'[u] = until[u]
        /\ UNCHANGED term
    BY <1>4, <2>0 DEF StopOrSleep, Goto, TimerInv, IdleInv, Timed
  <2>2. Timed'
    BY <1>1, <2>1 DEF TimerInv, Timed
  <2>3. TermPlaces'
    BY <1>1, <2>1 DEF TimerInv, TermPlaces, InIdle
  <2>4. \A i \in DOMAIN timers' : Covers(t, i) => Covers(t, i)'
    BY <1>1, <2>1 DEF Covers, WillAsk
  <2>. QED
    BY <1>1, <1>2, <2>1, <2>2, <2>3, <2>4, MoveKeepsTimers
<1>. QED
  BY <1>3, <1>4

\* A thread that wakes looks at the timers before it sleeps again.
LEMMA WakeKeepsTimers ==
    ASSUME TimerInv, IdleInv', NEW t \in Threads,
           \/ EpollReports(t) \/ EpollTimesOut(t) \/ ListExpired(t) \/ ScheduleCbs(t) \/ Drain(t)
    PROVE  TimerInv'
<1>. USE DEF wakeup, wait, At
<1>1. /\ pc[t] \in {"sleep", "awake", "list", "drain"}
      /\ UNCHANGED <<term, next_timeout, until>>
  BY DEF EpollReports, EpollTimesOut, ListExpired, ScheduleCbs, Drain
<1>2. PICK l \in {"awake", "list", "drain", "leave"} : Goto(t, l)
  BY DEF EpollReports, EpollTimesOut, ListExpired, ScheduleCbs, Drain
<1>3. pc'[t] = l /\ \A u \in Threads \ {t} : pc'[u] = pc[u]
  BY <1>2 DEF Goto, TimerInv, IdleInv
<1>4. ~term[t] /\ WillAsk(t)'
  BY <1>1, <1>3 DEF TimerInv, TermPlaces, InIdle, WillAsk
<1>5. \A i \in DOMAIN timers' : i \in DOMAIN timers /\ timers'[i] = timers[i]
  <2>1. CASE ListExpired(t)
    BY <2>1 DEF ListExpired, Restrict
  <2>2. CASE ~ListExpired(t)
    <3>1. UNCHANGED timers
      BY <2>2 DEF EpollReports, EpollTimesOut, ScheduleCbs, Drain
    <3>. QED
      BY <3>1 DEF TimerInv, Timed
  <2>. QED
    BY <2>1, <2>2
<1>6. owes' \in [Actors -> Nat] /\ pipe' \in BOOLEAN /\ edge' \in BOOLEAN
  <2>1. CASE ScheduleCbs(t)
    <3>1. PICK need \in BOOLEAN : need = (cbs[t] > 0 /\ m_fibers = 0)
      OBVIOUS
    <3>2. Owe(t, need) /\ owes[t] = 0 /\ t \in Actors
      BY <2>1, <3>1 DEF ScheduleCbs, Schedule, Actors
    <3>. QED
      BY <2>1, <3>2, OweKeeps DEF ScheduleCbs, TimerInv, Timed
  <2>2. CASE ~ScheduleCbs(t)
    BY <2>2 DEF EpollReports, EpollTimesOut, ListExpired, Drain, TimerInv, Timed
  <2>. QED
    BY <2>1, <2>2
<1>7. Timed'
  <2>1. \A i \in DOMAIN timers' : timers'[i] \in Nat
    BY <1>5 DEF TimerInv, Timed
  <2>. QED
    BY <1>1, <1>5, <1>6, <2>1 DEF TimerInv, Timed
<1>8. TermPlaces'
  BY <1>1, <1>3, <1>4 DEF TimerInv, TermPlaces
<1>9. \A i \in DOMAIN timers' : Covers(t, i)'
  BY <1>4 DEF Covers
<1>. QED
  BY <1>1, <1>2, <1>4, <1>5, <1>7, <1>8, <1>9, MoveKeepsTimers

\* tickle() reaches a thread that is in its idle fiber; when none is, all that
\* remain will look at the timers before they sleep.
LEMMA TickleKeepsTimers ==
    ASSUME TimerInv, IdleInv', NEW a \in Actors, Tickle(a) PROVE TimerInv'
<1>. USE IdleLoopAssumption DEF wait
<1>1. /\ UNCHANGED <<timers, pc, term, next_timeout, until>>
      /\ owes' = [owes EXCEPT ![a] = owes[a] - 1] /\ owes[a] > 0
      /\ pipe' = (pipe \/ HasIdleThread) /\ edge' = (edge \/ HasIdleThread)
  BY DEF Tickle
<1>2. Timed' /\ TermPlaces'
  <2>1. owes' \in [Actors -> Nat]
    BY <1>1 DEF TimerInv, Timed
  <2>2. pipe' \in BOOLEAN /\ edge' \in BOOLEAN
    BY <1>1 DEF TimerInv, Timed, HasIdleThread
  <2>. QED
    BY <1>1, <2>1, <2>2 DEF TimerInv, Timed, TermPlaces
<1>3. CASE HasIdleThread
  <2>1. pipe' /\ edge'
    BY <1>1, <1>3
  <2>. QED
    BY <1>2, <2>1 DEF TimerInv, TickleComing
<1>4. CASE ~HasIdleThread
  <2>1. Cardinality(IdleThreads) = 0
    <3>1. IsFiniteSet(IdleThreads)
      BY FS_Subset, IdleThreads \subseteq Threads DEF IdleThreads
    <3>2. Cardinality(IdleThreads) \in Nat
      BY <3>1, FS_CardinalityType
    <3>3. Cardinality(IdleThreads) = m_idle_thread_count
      BY DEF TimerInv, IdleInv, IdleCountExact, IdleThreads
    <3>. QED
      BY <1>4, <3>2, <3>3 DEF HasIdleThread
  <2>2. IdleThreads = {}
    BY <2>1, FS_EmptySet, FS_Subset, IdleThreads \subseteq Threads DEF IdleThreads
  <2>3. \A t \in Threads : pc[t] \in {"scan", "got", "run", "none", "exited"}
    BY <2>2 DEF IdleThreads, TimerInv, IdleInv, Places
  <2>4. CASE \A t \in Threads : term[t]
    BY <1>1, <1>2, <2>4 DEF TimerInv
  <2>5. CASE ~ \A t \in Threads : term[t]
    <3>1. PICK t \in Threads : ~term[t]
      BY <2>5
    <3>2. WillAsk(t)'
      BY <1>1, <2>3, <3>1 DEF WillAsk, TimerInv, TermPlaces
    <3>. QED
      BY <1>2, <3>2 DEF TimerInv, Covers
  <2>. QED
    BY <2>4, <2>5
<1>. QED
  BY <1>3, <1>4

\* Timers and sleepers age together.
LEMMA TickKeepsTimers ==
    ASSUME TimerInv, IdleInv', Tick PROVE TimerInv'
<1>1. /\ UNCHANGED <<pc, term, next_timeout, owes, pipe, edge>>
      /\ \A t \in Threads : pc[t] # "asked"
      /\ DOMAIN timers' = DOMAIN timers
      /\ \A i \in DOMAIN timers : timers'[i] = Less(timers[i])
      /\ until' = [t \in Threads |-> IF pc[t] = "sleep" THEN Less(until[t]) ELSE until[t]]
  BY DEF Tick, wakeup
<1>2. \A n \in Nat : Less(n) \in Nat
  BY DEF Less
<1>3. \A m, n \in Nat : m <= n => Less(m) <= Less(n)
  BY DEF Less
<1>4. Timed'
  <2>1. until' \in [Threads -> Nat]
    BY <1>1, <1>2 DEF TimerInv, Timed
  <2>2. \A i \in DOMAIN timers' : timers'[i] \in Nat
    BY <1>1, <1>2 DEF TimerInv, Timed
  <2>. QED
    BY <1>1, <2>1, <2>2 DEF TimerInv, Timed
<1>5. TermPlaces'
  BY <1>1 DEF TimerInv, TermPlaces
<1>6. TickleComing => TickleComing'
  BY <1>1 DEF TickleComing
<1>7. ASSUME NEW i \in DOMAIN timers, NEW t \in Threads, Covers(t, i) PROVE Covers(t, i)'
  <2>1. CASE WillAsk(t)
    BY <1>1, <2>1 DEF Covers, WillAsk
  <2>2. CASE pc[t] = "sleep" /\ until[t] <= timers[i]
    <3>1. until[t] \in Nat /\ timers[i] \in Nat
      BY DEF TimerInv, Timed
    <3>2. until'[t] <= timers'[i]
      BY <1>1, <1>3, <2>2, <3>1
    <3>. QED
      BY <1>1, <2>2, <3>2 DEF Covers
  <2>. QED
    BY <1>1, <1>7, <2>1, <2>2 DEF Covers
<1>. QED
  BY <1>1, <1>4, <1>5, <1>6, <1>7 DEF TimerInv

\* The clock's variables stay what they should be, signals included.
LEMMA TimedStep == Timed /\ [Next]_vars => Timed'
<1>. SUFFICES ASSUME Timed, [Next]_vars PROVE Timed'
  OBVIOUS
<1>. USE IdleLoopAssumption DEF queue, wait, wakeup, bounds, At
<1>0. \A t \in Threads : SleepTime(t) \in Nat /\ t \in Actors
  BY DEF Timed, SleepTime, Actors
<1>1. ASSUME NEW t \in Threads,
             \/ FindNothing(t) \/ RunTask(t) \/ EndTask(t) \/ GoIdle(t) \/ LeaveIdle(t)
             \/ EpollReports(t) \/ EpollTimesOut(t) \/ Drain(t)
      PROVE  Timed'
  BY <1>1 DEF Timed, FindNothing, RunTask, EndTask, GoIdle, LeaveIdle, EpollReports,
     EpollTimesOut, Drain
<1>2. ASSUME NEW a \in Actors, NEW need, Owe(a, need) PROVE owes' \in [Actors -> Nat]
  BY <1>2 DEF Timed, Owe
<1>3. ASSUME NEW t \in Threads, Take(t) \/ ScheduleCbs(t) PROVE Timed'
  BY <1>0, <1>2, <1>3 DEF Timed, Take, ScheduleCbs, Schedule
<1>4. ASSUME NEW t \in Threads, AskTimeout(t) PROVE Timed'
  <2>1. NextTimeout \in Nat \cup {None}
    BY NextTimeoutFacts
  <2>. QED
    BY <1>4, <2>1 DEF Timed, AskTimeout
<1>5. ASSUME NEW t \in Threads, StopOrSleep(t) \/ EpollInterrupted(t) PROVE Timed'
  BY <1>0, <1>5 DEF Timed, StopOrSleep, EpollInterrupted
<1>6. ASSUME NEW t \in Threads, ListExpired(t) PROVE Timed'
  <2>1. \A i \in DOMAIN timers' : i \in DOMAIN timers /\ timers'[i] = timers[i]
    BY <1>6 DEF ListExpired, Restrict
  <2>2. \A i \in DOMAIN timers' : timers'[i] \in Nat
    BY <2>1 DEF Timed
  <2>. QED
    BY <1>6, <2>2 DEF Timed, ListExpired
<1>7. ASSUME NEW a \in Actors, NEW ms \in Delays, AddTimer(a, ms) PROVE Timed'
  <2>1. \A i \in DOMAIN timers' : timers'[i] \in Nat
    BY <1>7 DEF AddTimer, Timed
  <2>. QED
    BY <1>2, <1>7, <2>1 DEF Timed, AddTimer
<1>8. ASSUME NEW a \in Actors, AddTask(a) PROVE Timed'
  BY <1>2, <1>8 DEF Timed, AddTask, Schedule
<1>9. ASSUME NEW a \in Actors, Tickle(a) PROVE Timed'
  <2>1. owes' \in [Actors -> Nat]
    BY <1>9 DEF Tickle, Timed
  <2>2. pipe' \in BOOLEAN /\ edge' \in BOOLEAN
    BY <1>9 DEF Tickle, Timed, HasIdleThread
  <2>. QED
    BY <1>9, <2>1, <2>2 DEF Timed, Tickle
<1>10. CASE Stop
  BY <1>10, FS_CardinalityType DEF Timed, Stop
<1>11. CASE Tick
  <2>1. \A n \in Nat : Less(n) \in Nat
    BY DEF Less
  <2>2. until' \in [Threads -> Nat]
    BY <1>11, <2>1 DEF Tick, Timed
  <2>3. \A i \in DOMAIN timers' : timers'[i] \in Nat
    BY <1>11, <2>1 DEF Tick, Timed
  <2>. QED
    BY <1>11, <2>2, <2>3 DEF Tick, Timed
<1>12. CASE Join \/ UNCHANGED vars
  BY <1>12 DEF Join, vars, Timed
<1>. QED
  BY <1>0, <1>1, <1>3, <1>4, <1>5, <1>6, <1>7, <1>8, <1>9, <1>10, <1>11, <1>12
  DEF Next, Over, ThreadStep, TaskSchedules, TaskAddsTimer, ForeignSchedule, ForeignAddTimer, Actors

LEMMA TimerStep ==
    ASSUME MaxSignals = 0, TimerInv, signals \in Nat, [Next]_vars PROVE TimerInv'
<1>. USE IdleLoopAssumption
<1>0. IdleInv'
  BY IdleStep DEF TimerInv
<1>1. ASSUME NEW t \in Threads, ThreadStep(t) PROVE TimerInv'
  BY <1>0, <1>1, RunKeepsTimers, AskKeepsTimers, SleepKeepsTimers, WakeKeepsTimers
  DEF ThreadStep
<1>2. ASSUME NEW a \in Actors, owes[a] = 0, AddTask(a) PROVE TimerInv'
  <2>1. PICK need \in BOOLEAN : Owe(a, need)
    BY <1>2 DEF AddTask, Schedule, Owe
  <2>2. owes' \in [Actors -> Nat] /\ \A b \in Actors : owes[b] > 0 => owes'[b] > 0
    BY <1>2, <2>1, OweKeeps DEF TimerInv
  <2>3. UNCHANGED <<timers, pc, term, next_timeout, until, pipe, edge>>
    BY <1>2 DEF AddTask, wait, wakeup
  <2>4. Timed' /\ TermPlaces'
    BY <2>2, <2>3 DEF TimerInv, Timed, TermPlaces
  <2>5. TickleComing => TickleComing'
    BY <2>2, <2>3 DEF TickleComing
  <2>. QED
    BY <1>0, <2>3, <2>4, <2>5 DEF TimerInv, Covers, WillAsk, SleepTime
<1>3. ASSUME NEW t \in Threads, TaskSchedules(t) \/ TaskAddsTimer(t) PROVE TimerInv'
  BY <1>0, <1>2, <1>3, AddTimerKeeps DEF TaskSchedules, TaskAddsTimer, At, Actors
<1>4. ASSUME NEW t \in Threads, EpollInterrupted(t) PROVE FALSE
  BY <1>4 DEF EpollInterrupted
<1>5. ASSUME NEW a \in Actors, Tickle(a) PROVE TimerInv'
  BY <1>0, <1>5, TickleKeepsTimers
<1>6. CASE ForeignSchedule \/ ForeignAddTimer
  BY <1>0, <1>2, <1>6, AddTimerKeeps DEF ForeignSchedule, ForeignAddTimer, Actors
<1>7. CASE Stop
  <2>1. /\ UNCHANGED <<timers, pc, term, next_timeout, until, pipe, edge>>
        /\ owes[Caller] = 0 /\ owes' = [owes EXCEPT ![Caller] = Cardinality(Threads)]
    BY <1>7 DEF Stop, wait, wakeup
  <2>2. Cardinality(Threads) \in Nat
    BY FS_CardinalityType
  <2>3. owes' \in [Actors -> Nat] /\ \A b \in Actors : owes[b] > 0 => owes'[b] > 0
    BY <2>1, <2>2 DEF TimerInv, Timed, Actors
  <2>4. Timed' /\ TermPlaces'
    BY <2>1, <2>3 DEF TimerInv, Timed, TermPlaces
  <2>5. TickleComing => TickleComing'
    BY <2>1, <2>3 DEF TickleComing
  <2>. QED
    BY <1>0, <2>1, <2>4, <2>5 DEF TimerInv, Covers, WillAsk, SleepTime
<1>8. CASE Join \/ UNCHANGED vars
  <2>1. UNCHANGED <<timers, pc, term, next_timeout, until, pipe, edge, owes>>
    BY <1>8 DEF Join, vars, wait, wakeup
  <2>. QED
    BY <1>0, <2>1 DEF TimerInv, Timed, TermPlaces, TickleComing, Covers, WillAsk, SleepTime
<1>9. CASE Tick
  BY <1>0, <1>9, TickKeepsTimers
<1>. QED
  BY <1>1, <1>3, <1>4, <1>5, <1>6, <1>7, <1>8, <1>9 DEF Next, Over

LEMMA InitTimed == Init => Timed
<1>. SUFFICES ASSUME Init PROVE Timed
  OBVIOUS
<1>1. DOMAIN timers = {}
  BY DEF Init
<1>2. owes \in [Actors -> Nat] /\ next_timeout \in [Threads -> Nat \cup {None}]
  BY DEF Init
<1>3. term \in [Threads -> BOOLEAN] /\ until \in [Threads -> Nat]
  BY DEF Init
<1>. QED
  BY <1>1, <1>2, <1>3 DEF Init, Timed

\* When every thread sleeps, one of them wakes in time for the first timer,
\* however many threads, timers and tasks there are.  (A signal restarts an
\* epoll_wait with the full timeout, so it is left out.)
THEOREM NoOversleepCorrect ==
    ASSUME MaxSignals = 0 PROVE Spec => []NoOversleep
<1>1. Init => TimerInv /\ signals \in Nat
  <2>1. Init => IdleInv
    BY InitIdle
  <2>2. Init => DOMAIN timers = {} /\ Timed
    BY InitTimed DEF Init
  <2>3. Init => TermPlaces /\ signals \in Nat
    BY DEF Init, TermPlaces, InIdle
  <2>. QED
    BY <2>1, <2>2, <2>3 DEF TimerInv
<1>2. TimerInv /\ signals \in Nat /\ [Next]_vars => TimerInv' /\ (signals \in Nat)'
  <2>. SUFFICES ASSUME TimerInv, signals \in Nat, [Next]_vars PROVE TimerInv' /\ signals' \in Nat
    OBVIOUS
  <2>1. signals' \in {signals, signals + 1}
    BY DEF Next, Over, vars, Tickle, ThreadStep, Take, FindNothing, RunTask, EndTask, GoIdle,
       AskTimeout, StopOrSleep, EpollReports, EpollTimesOut, ListExpired, ScheduleCbs, Drain,
       LeaveIdle, TaskSchedules, TaskAddsTimer, AddTask, AddTimer, EpollInterrupted,
       ForeignSchedule, ForeignAddTimer, Stop, Join, Tick, bounds
  <2>. QED
    BY <2>1, TimerStep
<1>3. TimerInv => NoOversleep
  BY DEF TimerInv, NoOversleep, Quiet, TickleComing, TermPlaces, Covers, WillAsk, Timed, InIdle
<1>. QED
  BY <1>1, <1>2, <1>3, PTL DEF Spec

-----------------------------------------------------------------------------
(* One thread *)

\* The pool has one thread, the default of IOManager's constructor.
OneThread == \A t, u \in Threads : t = u

\* Whoever called stop() is in it, or has returned from it.
StopFlag == m_stopping <=> caller # "out"

\* The thread stops when nothing is left, and nothing is added after that.
ExitInv ==
    /\ IdleInv /\ Timed /\ StopFlag
    /\ \A t \in Threads :
        /\ pc[t] = "asked" /\ next_timeout[t] = None => DOMAIN timers = {}
        /\ pc[t] = "exited" => term[t]
        /\ term[t] => /\ m_stopping /\ m_fibers = 0 /\ DOMAIN timers = {}
                      /\ pc[t] \in {"leave", "scan", "none", "exited"}

\* A thread that sleeps while stop() is under way has work, or is woken.
WakeInv ==
    /\ IdleInv /\ Timed /\ StopFlag
    /\ \A t \in Threads :
        /\ pc[t] = "asked" /\ next_timeout[t] # None => DOMAIN timers # {}
        /\ pc[t] = "sleep" /\ m_stopping =>
            \/ DOMAIN timers # {} \/ m_fibers # 0 \/ m_active_thread_count # 0
            \/ owes[Caller] > 0 \/ (pipe /\ edge)

LEMMA StoppingStep == StopFlag /\ [Next]_vars => StopFlag'
<1>1. [Next]_vars => UNCHANGED stop \/ Stop \/ Join
  BY DEF Next, Over, vars, Tickle, ThreadStep, Take, FindNothing, RunTask, EndTask, GoIdle,
     AskTimeout, StopOrSleep, EpollReports, EpollTimesOut, ListExpired, ScheduleCbs, Drain,
     LeaveIdle, TaskSchedules, TaskAddsTimer, AddTask, AddTimer, EpollInterrupted,
     ForeignSchedule, ForeignAddTimer, Tick
<1>2. StopFlag /\ UNCHANGED stop => StopFlag'
  BY DEF stop, StopFlag
<1>3. Stop => StopFlag'
  BY DEF Stop, StopFlag
<1>4. StopFlag /\ Join => StopFlag'
  BY DEF Join, StopFlag
<1>. QED
  BY <1>1, <1>2, <1>3, <1>4

\* The steps that no thread of the pool makes for its own sake.
Outside ==
    \/ \E a \in Actors : Tickle(a)
    \/ \E t \in Threads : EpollInterrupted(t)
    \/ ForeignSchedule \/ ForeignAddTimer \/ Stop \/ Join \/ Tick \/ UNCHANGED vars

\* They leave the threads where they are, and add nothing once stop() is called.
LEMMA OutsideEffect ==
    ASSUME StopFlag, Outside
    PROVE  /\ UNCHANGED <<pc, term, next_timeout, m_active_thread_count>>
           /\ UNCHANGED m_fibers \/ ~m_stopping'
           /\ DOMAIN timers' = DOMAIN timers
              \/ ("timer" \in ForeignOps /\ ~m_stopping' /\ DOMAIN timers' # {})
           /\ m_stopping => m_stopping'
<1>. USE DEF queue, wait, stop, StopFlag
<1>1. ASSUME NEW a \in Actors, Tickle(a)
      PROVE  UNCHANGED <<pc, term, next_timeout, queue, timers, stop>>
  BY <1>1 DEF Tickle
<1>2. ASSUME NEW t \in Threads, EpollInterrupted(t)
      PROVE  UNCHANGED <<pc, term, next_timeout, queue, timers, stop>>
  BY <1>2 DEF EpollInterrupted
<1>3. CASE ForeignSchedule
  BY <1>3 DEF ForeignSchedule, AddTask
<1>4. CASE ForeignAddTimer
  <2>1. DOMAIN timers' # {}
    BY <1>4 DEF ForeignAddTimer, AddTimer
  <2>. QED
    BY <1>4, <2>1 DEF ForeignAddTimer, AddTimer
<1>5. CASE Stop \/ Join
  BY <1>5 DEF Stop, Join
<1>6. CASE Tick
  <2>1. DOMAIN timers' = DOMAIN timers
    BY <1>6 DEF Tick
  <2>. QED
    BY <1>6, <2>1 DEF Tick
<1>7. CASE UNCHANGED vars
  BY <1>7 DEF vars
<1>. QED
  BY <1>1, <1>2, <1>3, <1>4, <1>5, <1>6, <1>7 DEF Outside

\* A step is one of these, or one of the pool's threads.
LEMMA StepKinds ==
    [Next]_vars =>
        \/ Outside
        \/ \E t \in Threads : ThreadStep(t) \/ TaskSchedules(t) \/ TaskAddsTimer(t)
  BY DEF Next, Over, Outside

LEMMA ExitStep ==
    ASSUME OneThread, "timer" \notin ForeignOps, ExitInv, [Next]_vars
    PROVE  ExitInv'
<1>. USE DEF queue, wait, stop
<1>1. IdleInv' /\ Timed' /\ StopFlag'
  BY IdleStep, TimedStep, StoppingStep DEF ExitInv
<1>2. CASE Outside
  BY <1>1, <1>2, OutsideEffect DEF ExitInv
<1>3. ASSUME NEW t \in Threads, ThreadStep(t) \/ TaskSchedules(t) \/ TaskAddsTimer(t)
      PROVE  ExitInv'
  <2>0. /\ Threads = {t} /\ t \in Actors /\ pc \in [Threads -> Places] /\ term \in [Threads -> BOOLEAN]
        /\ next_timeout \in [Threads -> Nat \cup {None}]
        /\ pc[t] = "asked" /\ next_timeout[t] = None => DOMAIN timers = {}
        /\ pc[t] = "exited" => term[t]
        /\ term[t] => /\ m_stopping /\ m_fibers = 0 /\ DOMAIN timers = {}
                      /\ pc[t] \in {"leave", "scan", "none", "exited"}
    BY DEF OneThread, ExitInv, IdleInv, Timed, Actors
  <2>. SUFFICES /\ pc'[t] = "asked" /\ next_timeout'[t] = None => DOMAIN timers' = {}
                /\ pc'[t] = "exited" => term'[t]
                /\ term'[t] => /\ m_stopping' /\ m_fibers' = 0 /\ DOMAIN timers' = {}
                               /\ pc'[t] \in {"leave", "scan", "none", "exited"}
    BY <1>1, <2>0 DEF ExitInv
  <2>1. CASE \/ Take(t) \/ FindNothing(t) \/ RunTask(t) \/ EndTask(t) \/ GoIdle(t) \/ LeaveIdle(t)
    BY <2>0, <2>1 DEF Take, FindNothing, RunTask, EndTask, GoIdle, LeaveIdle, At, Goto
  <2>2. CASE AskTimeout(t)
    <3>1. NextTimeout = None => DOMAIN timers = {}
      BY NextTimeoutFacts DEF ExitInv, None
    <3>. QED
      BY <2>0, <2>2, <3>1 DEF AskTimeout, At, Goto
  <2>3. CASE StopOrSleep(t)
    <3>1. CASE MayStop(t)
      BY <2>0, <2>3, <3>1 DEF StopOrSleep, At, Goto, MayStop
    <3>2. CASE ~MayStop(t)
      BY <2>0, <2>3, <3>2 DEF StopOrSleep, At, Goto
    <3>. QED
      BY <3>1, <3>2
  <2>4. CASE EpollReports(t) \/ EpollTimesOut(t) \/ ListExpired(t) \/ ScheduleCbs(t) \/ Drain(t)
    <3>1. pc[t] \in {"sleep", "awake", "list", "drain"} /\ UNCHANGED term
      BY <2>4 DEF EpollReports, EpollTimesOut, ListExpired, ScheduleCbs, Drain, At
    <3>2. pc'[t] \in {"awake", "list", "drain", "leave"}
      BY <2>0, <2>4 DEF EpollReports, EpollTimesOut, ListExpired, ScheduleCbs, Drain, Goto
    <3>. QED
      BY <2>0, <3>1, <3>2
  <2>5. CASE TaskSchedules(t) \/ TaskAddsTimer(t)
    <3>1. pc[t] = "run" /\ UNCHANGED <<pc, term>>
      BY <2>5 DEF TaskSchedules, TaskAddsTimer, AddTask, AddTimer, At
    <3>. QED
      BY <2>0, <3>1
  <2>. QED
    BY <1>3, <2>1, <2>2, <2>3, <2>4, <2>5 DEF ThreadStep
<1>. QED
  BY <1>2, <1>3, StepKinds

\* In an IOManager with the default single thread, whose timers its own tasks
\* add, no timer and no task is left when the thread has exited.  (With more
\* threads, or timers added from outside, a next_timeout that was read before
\* a timer came is stale when the thread decides on it.)
THEOREM AllServedCorrect ==
    ASSUME OneThread, "timer" \notin ForeignOps PROVE Spec => []AllServedAtExit
<1>1. Init => ExitInv
  <2>. SUFFICES ASSUME Init PROVE ExitInv
    OBVIOUS
  <2>1. IdleInv /\ StopFlag
    BY InitIdle DEF Init, StopFlag
  <2>2. Timed
    BY InitTimed
  <2>. QED
    BY <2>1, <2>2 DEF Init, ExitInv
<1>2. ExitInv /\ [Next]_vars => ExitInv'
  BY ExitStep
<1>3. ExitInv => AllServedAtExit
  BY IdleLoopAssumption DEF ExitInv, AllServedAtExit
<1>. QED
  BY <1>1, <1>2, <1>3, PTL DEF Spec

-----------------------------------------------------------------------------
\* A tickle that finds the thread asleep is written to the pipe.
LEMMA TickleReaches ==
    ASSUME IdleInv, NEW t \in Threads, pc[t] = "sleep", NEW a \in Actors, Tickle(a)
    PROVE  pipe' /\ edge'
<1>1. t \in IdleThreads /\ IsFiniteSet(IdleThreads)
  BY IdleLoopAssumption, FS_Subset, IdleThreads \subseteq Threads DEF IdleThreads, InIdle
<1>2. Cardinality(IdleThreads) \in Nat /\ Cardinality(IdleThreads) # 0
  BY <1>1, FS_CardinalityType, FS_EmptySet
<1>3. HasIdleThread
  BY <1>2 DEF IdleInv, IdleCountExact, IdleThreads, HasIdleThread
<1>. QED
  BY <1>3 DEF Tickle

LEMMA WakeStep ==
    ASSUME OneThread, WakeInv, [Next]_vars
    PROVE  WakeInv'
<1>. USE IdleLoopAssumption DEF queue, wait, stop, wakeup
<1>1. IdleInv' /\ Timed' /\ StopFlag'
  BY IdleStep, TimedStep, StoppingStep DEF WakeInv
<1>2. CASE Outside
  <2>1. /\ UNCHANGED <<pc, term, next_timeout, m_active_thread_count>>
        /\ UNCHANGED m_fibers \/ ~m_stopping'
        /\ DOMAIN timers' = DOMAIN timers \/ (~m_stopping' /\ DOMAIN timers' # {})
    BY <1>2, OutsideEffect DEF WakeInv
  <2>2. ASSUME NEW t \in Threads, pc[t] = "sleep", m_stopping' = TRUE
        PROVE  \/ UNCHANGED <<pipe, edge, m_stopping>> /\ owes'[Caller] = owes[Caller]
               \/ owes'[Caller] > 0 \/ (pipe' /\ edge')
    <3>1. CASE \E a \in Actors : Tickle(a)
      BY <2>2, <3>1, TickleReaches DEF WakeInv
    <3>2. CASE Stop
      <4>1. Cardinality(Threads) \in Nat /\ Cardinality(Threads) # 0
        BY FS_CardinalityType, FS_EmptySet
      <4>2. owes'[Caller] = Cardinality(Threads)
        BY <3>2 DEF Stop, WakeInv, Timed, Actors
      <4>. QED
        BY <4>1, <4>2
    <3>3. CASE ForeignSchedule \/ ForeignAddTimer
      BY <2>2, <3>3 DEF ForeignSchedule, ForeignAddTimer, AddTask, AddTimer, WakeInv, StopFlag
    <3>4. CASE (\E u \in Threads : EpollInterrupted(u)) \/ Join \/ Tick \/ UNCHANGED vars
      BY <3>4 DEF EpollInterrupted, Join, Tick, vars
    <3>. QED
      BY <1>2, <3>1, <3>2, <3>3, <3>4 DEF Outside
  <2>. QED
    BY <1>1, <2>1, <2>2 DEF WakeInv
<1>3. ASSUME NEW t \in Threads, ThreadStep(t) \/ TaskSchedules(t) \/ TaskAddsTimer(t)
      PROVE  WakeInv'
  <2>0. /\ Threads = {t} /\ pc \in [Threads -> Places]
        /\ next_timeout \in [Threads -> Nat \cup {None}]
        /\ pc[t] = "asked" /\ next_timeout[t] # None => DOMAIN timers # {}
    BY DEF OneThread, WakeInv, IdleInv, Timed
  <2>. SUFFICES /\ pc'[t] = "asked" /\ next_timeout'[t] # None => DOMAIN timers' # {}
                /\ pc'[t] = "sleep" /\ m_stopping' =>
                     DOMAIN timers' # {} \/ m_fibers' # 0 \/ m_active_thread_count' # 0
    BY <1>1, <2>0 DEF WakeInv
  <2>1. CASE AskTimeout(t)
    <3>1. DOMAIN timers = {} => NextTimeout = None
      BY NextTimeoutFacts DEF WakeInv
    <3>. QED
      BY <2>0, <2>1, <3>1 DEF AskTimeout, Goto
  <2>2. CASE StopOrSleep(t)
    <3>1. CASE MayStop(t)
      BY <2>0, <2>2, <3>1 DEF StopOrSleep, Goto
    <3>2. CASE ~MayStop(t)
      BY <2>0, <2>2, <3>2 DEF StopOrSleep, Goto, MayStop, At
    <3>. QED
      BY <3>1, <3>2
  <2>3. CASE \/ Take(t) \/ FindNothing(t) \/ RunTask(t) \/ EndTask(t) \/ GoIdle(t) \/ LeaveIdle(t)
             \/ EpollReports(t) \/ EpollTimesOut(t) \/ ListExpired(t) \/ ScheduleCbs(t) \/ Drain(t)
    <3>1. pc'[t] \notin {"asked", "sleep"}
      BY <2>0, <2>3 DEF Take, FindNothing, RunTask, EndTask, GoIdle, LeaveIdle, Goto,
         EpollReports, EpollTimesOut, ListExpired, ScheduleCbs, Drain
    <3>. QED
      BY <3>1
  <2>4. CASE TaskSchedules(t) \/ TaskAddsTimer(t)
    <3>1. pc'[t] = "run"
      BY <2>4 DEF TaskSchedules, TaskAddsTimer, AddTask, AddTimer, At
    <3>. QED
      BY <3>1
  <2>. QED
    BY <1>3, <2>1, <2>2, <2>3, <2>4 DEF ThreadStep
<1>. QED
  BY <1>2, <1>3, StepKinds

\* In an IOManager with one thread, stop() wakes the thread when it sleeps and
\* has nothing left to wait for.  (With several threads the tickles of stop()
\* meet in one byte of the pipe, whose edge wakes one of them.)
THEOREM StopWakesCorrect ==
    ASSUME OneThread PROVE Spec => []StopWakesAll
<1>1. Init => WakeInv
  <2>. SUFFICES ASSUME Init PROVE WakeInv
    OBVIOUS
  <2>1. IdleInv /\ StopFlag
    BY InitIdle DEF Init, StopFlag
  <2>2. Timed
    BY InitTimed
  <2>. QED
    BY <2>1, <2>2 DEF Init, WakeInv
<1>2. WakeInv /\ [Next]_vars => WakeInv'
  BY WakeStep
<1>3. WakeInv => StopWakesAll
  BY DEF WakeInv, StopWakesAll, Quiet, StopFlag, Timed, Actors
<1>. QED
  BY <1>1, <1>2, <1>3, PTL DEF Spec
=============================================================================
