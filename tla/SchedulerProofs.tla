-------------------------- MODULE SchedulerProofs --------------------------
(***************************************************************************)
(* Theorems about Scheduler, for every set of workers and functions.       *)
(***************************************************************************)
EXTENDS Scheduler, TLAPS, FiniteSetTheorems, SequenceTheorems

-----------------------------------------------------------------------------
(* Facts about the operators the model is built from *)

\* Erasing one entry of m_fibers keeps the others, in their order.
LEMMA RemoveAtFacts ==
    ASSUME NEW S, NEW s \in Seq(S), NEW i \in 1..Len(s)
    PROVE  /\ RemoveAt(s, i) \in Seq(S)
           /\ Len(RemoveAt(s, i)) = Len(s) - 1
           /\ \A k \in 1..(Len(s) - 1) :
                RemoveAt(s, i)[k] = IF k < i THEN s[k] ELSE s[k + 1]
<1>. DEFINE a == SubSeq(s, 1, i - 1)
            b == SubSeq(s, i + 1, Len(s))
<1>1. /\ a \in Seq(S) /\ Len(a) = i - 1
      /\ \A k \in 1..(i - 1) : a[k] = s[k]
  OBVIOUS
<1>2. /\ b \in Seq(S) /\ Len(b) = Len(s) - i
      /\ \A k \in 1..(Len(s) - i) : b[k] = s[k + i]
  <2>1. \A k \in (i + 1)..Len(s) : s[k] \in S
    OBVIOUS
  <2>. QED
    BY <2>1, SubSeqProperties
<1>3. RemoveAt(s, i) = a \o b
  BY DEF RemoveAt
<1>. HIDE DEF a, b
<1>4. a \o b \in Seq(S) /\ Len(a \o b) = Len(s) - 1
  <2>1. Len(a) + Len(b) = Len(s) - 1
    BY <1>1, <1>2
  <2>. QED
    BY <1>1, <1>2, <2>1, ConcatProperties
<1>5. ASSUME NEW k \in 1..(Len(s) - 1)
      PROVE  (a \o b)[k] = IF k < i THEN s[k] ELSE s[k + 1]
  <2>1. CASE k < i
    BY <2>1, <1>1, <1>2, ConcatProperties
  <2>2. CASE k >= i
    <3>1. (a \o b)[k] = b[k - (i - 1)]
      BY <2>2, <1>1, <1>2, ConcatProperties
    <3>2. k - (i - 1) \in 1..(Len(s) - i) /\ (k - (i - 1)) + i = k + 1
      BY <2>2
    <3>3. b[k - (i - 1)] = s[k + 1]
      BY <3>2, <1>2
    <3>4. ~(k < i)
      BY <2>2
    <3>. QED
      BY <3>1, <3>3, <3>4
  <2>3. k < i \/ k >= i
    OBVIOUS
  <2>. QED
    BY <2>1, <2>2, <2>3
<1>. QED
  BY <1>3, <1>4, <1>5

\* The Fiber operators return fibers.
LEMMA FiberOpsType ==
    ASSUME NEW J, NEW f \in FiberType(J), NEW cb \in J
    PROVE  /\ NewFiber(cb) \in FiberType(J)
           /\ Reset(f, cb) \in FiberType(J)
           /\ SwapIn(f) \in FiberType(J)
           /\ \A s \in FiberStates : SetState(f, s) \in FiberType(J)
           /\ \A e \in BOOLEAN : SwapOut(f, e) \in FiberType(J)
           /\ \A e \in BOOLEAN : MainFuncEnds(f, e, cb) \in FiberType(J)
  BY DEF FiberType, FiberStates, Contexts, NewFiber, Reset, SwapIn, SetState,
         SwapOut, MainFuncEnds

-----------------------------------------------------------------------------
(* Type correctness *)

\* Both forms of Fiber_and_Thread are entries of the list.
LEMMA EntryType ==
    ASSUME NEW j \in Jobs, NEW thread \in Threads \cup {AnyThread}
    PROVE  /\ Entry(j, thread) \in Fiber_and_Thread
           /\ FiberEntry(j) \in Fiber_and_Thread
  BY DEF Entry, FiberEntry, Fiber_and_Thread

\* push_back keeps the list a list of entries.
LEMMA ScheduleType ==
    ASSUME TypeOK, NEW e \in Fiber_and_Thread, Schedule(e)
    PROVE  m_fibers' \in Seq(Fiber_and_Thread)
  BY DEF TypeOK, Schedule

\* Every action of the scheduler keeps the state well typed.
LEMMA TypeStep == TypeOK /\ Dispatched /\ [Next]_vars => TypeOK'
<1>. SUFFICES ASSUME TypeOK, Dispatched, [Next]_vars
              PROVE  TypeOK'
  OBVIOUS
<1>1. ASSUME NEW t \in Threads, TakeTask(t)
      PROVE  TypeOK'
  <2>1. PICK i \in DOMAIN m_fibers :
            /\ ft' = [ft EXCEPT ![t] = m_fibers[i]]
            /\ m_fibers' = RemoveAt(m_fibers, i)
    BY <1>1 DEF TakeTask, Erase
  <2>2. i \in 1..Len(m_fibers) /\ m_fibers[i] \in Fiber_and_Thread
    BY DEF TypeOK
  <2>3. m_fibers' \in Seq(Fiber_and_Thread)
    BY <2>1, <2>2, RemoveAtFacts DEF TypeOK
  <2>. QED
    BY <1>1, <2>1, <2>2, <2>3
    DEF TypeOK, TakeTask, Goto, PcValues, owner, history
<1>2. ASSUME NEW t \in Threads, FindNothing(t)
      PROVE  TypeOK'
  BY <1>2 DEF TypeOK, FindNothing, Goto, PcValues, shared, owner, history
<1>3. ASSUME NEW t \in Threads, DispatchFiber(t)
      PROVE  TypeOK'
  <2>1. pc' \in [Threads -> PcValues]
    BY <1>3 DEF TypeOK, DispatchFiber, Goto, PcValues
  <2>2. ft' \in [Threads -> Fiber_and_Thread \cup {NoTask}]
    BY <1>3 DEF TypeOK, DispatchFiber
  <2>3. m_active_thread_count' \in Int
    BY <1>3 DEF TypeOK, DispatchFiber, Activate
  <2>. QED
    BY <1>3, <2>1, <2>2, <2>3 DEF TypeOK, DispatchFiber, owner, history
<1>4. ASSUME NEW t \in Threads, DispatchCb(t)
      PROVE  TypeOK'
  <2>. DEFINE j == ft[t].id
              f == IF cb_fiber[t] = NoJob THEN j ELSE cb_fiber[t]
  <2>1. j \in Jobs /\ f \in Jobs
    BY <1>4 DEF DispatchCb, TypeOK, Fiber_and_Thread, NoTask
  <2>2. NewFiber(j) \in FiberType(Jobs \cup {NoJob})
        /\ Reset(fib[f], j) \in FiberType(Jobs \cup {NoJob})
    <3>1. fib[f] \in FiberType(Jobs \cup {NoJob}) /\ j \in Jobs \cup {NoJob}
      BY <2>1 DEF TypeOK
    <3>. QED
      BY <3>1, FiberOpsType
  <2>3. fib' \in [Jobs -> FiberType(Jobs \cup {NoJob})]
    BY <1>4, <2>1, <2>2 DEF DispatchCb, TypeOK
  <2>4. cb_fiber' \in [Threads -> Jobs \cup {NoJob}]
    BY <1>4, <2>1 DEF DispatchCb, TypeOK
  <2>5. pc' \in [Threads -> PcValues] /\ crash' \in Faults
    BY <1>4 DEF TypeOK, DispatchCb, Goto, PcValues, Faults
  <2>6. ft' \in [Threads -> Fiber_and_Thread \cup {NoTask}]
    BY <1>4 DEF TypeOK, DispatchCb
  <2>7. m_active_thread_count' \in Int
    BY <1>4 DEF TypeOK, DispatchCb, Activate
  <2>. QED
    BY <1>4, <2>3, <2>4, <2>5, <2>6, <2>7 DEF TypeOK, DispatchCb, owner
<1>5. ASSUME NEW t \in Threads, Resume(t)
      PROVE  TypeOK'
  <2>1. Cur(t) \in Jobs => SwapIn(fib[Cur(t)]) \in FiberType(Jobs \cup {NoJob})
    BY FiberOpsType DEF TypeOK
  <2>2. fib' \in [Jobs -> FiberType(Jobs \cup {NoJob})]
    BY <1>5, <2>1 DEF Resume, TypeOK
  <2>3. crash' \in Faults
    BY <1>5 DEF Resume, SwapInFault, Faults
  <2>4. status' \in [Jobs -> Statuses]
    BY <1>5 DEF Resume, TypeOK, Statuses
  <2>. QED
    BY <1>5, <2>2, <2>3, <2>4 DEF TypeOK, Resume, Goto, PcValues, owner
<1>6. ASSUME NEW t \in Threads, NEW j \in Jobs, NEW thread \in SpawnPins,
             UserSchedule(t, j, thread)
      PROVE  TypeOK'
  <2>1. m_fibers' \in Seq(Fiber_and_Thread)
    <3>1. Entry(j, thread) \in Fiber_and_Thread
      BY EntryType, SchedulerAssumption
    <3>2. Schedule(Entry(j, thread))
      BY <1>6 DEF UserSchedule
    <3>. QED
      BY <3>1, <3>2, ScheduleType
  <2>2. status' \in [Jobs -> Statuses]
    BY <1>6 DEF TypeOK, UserSchedule, Statuses
  <2>. QED
    BY <1>6, <2>1, <2>2 DEF TypeOK, UserSchedule, locals, owner
<1>7. ASSUME NEW t \in Threads, YieldToReady(t)
      PROVE  TypeOK'
  <2>1. fib' \in [Jobs -> FiberType(Jobs \cup {NoJob})]
    <3>1. Cur(t) \in Jobs =>
            SetState(fib[Cur(t)], "READY") \in FiberType(Jobs \cup {NoJob})
      BY FiberOpsType DEF TypeOK, FiberStates
    <3>. QED
      BY <1>7, <3>1 DEF YieldToReady, TypeOK
  <2>2. yields' \in [Jobs -> 0..MaxYields]
    <3>. DEFINE j == fib[Cur(t)].job
    <3>1. j \in Jobs => yields[j] + 1 \in 0..MaxYields
      BY <1>7, SchedulerAssumption DEF YieldToReady, TypeOK
    <3>2. yields' = [yields EXCEPT ![j] = yields[j] + 1]
      BY <1>7 DEF YieldToReady
    <3>. QED
      BY <3>1, <3>2 DEF TypeOK
  <2>. QED
    BY <1>7, <2>1, <2>2 DEF TypeOK, YieldToReady, Goto, PcValues, owner
<1>8. ASSUME NEW t \in Threads, Register(t)
      PROVE  TypeOK'
  <2>1. yields' \in [Jobs -> 0..MaxYields]
    <3>. DEFINE j == fib[Cur(t)].job
    <3>1. j \in Jobs => yields[j] + 1 \in 0..MaxYields
      BY <1>8, SchedulerAssumption DEF Register, TypeOK
    <3>2. yields' = [yields EXCEPT ![j] = yields[j] + 1]
      BY <1>8 DEF Register
    <3>. QED
      BY <3>1, <3>2 DEF TypeOK
  <2>2. pc' \in [Threads -> PcValues]
    BY <1>8 DEF TypeOK, Register, Goto, PcValues
  <2>3. waiters' \subseteq Jobs
    <3>1. Cur(t) \in Jobs
      BY <1>8 DEF Register, Dispatched, Active
    <3>. QED
      BY <1>8, <3>1 DEF Register, TypeOK
  <2>. QED
    BY <1>8, <2>1, <2>2, <2>3 DEF TypeOK, Register, owner
<1>9. ASSUME NEW t \in Threads, YieldToHold(t)
      PROVE  TypeOK'
  <2>1. fib' \in [Jobs -> FiberType(Jobs \cup {NoJob})]
    <3>1. Cur(t) \in Jobs =>
            SetState(fib[Cur(t)], "HOLD") \in FiberType(Jobs \cup {NoJob})
      BY FiberOpsType DEF TypeOK, FiberStates
    <3>. QED
      BY <1>9, <3>1 DEF YieldToHold, TypeOK
  <2>. QED
    BY <1>9, <2>1 DEF TypeOK, YieldToHold, Goto, PcValues, owner, history
<1>10. ASSUME NEW t \in Threads, NEW throws \in BOOLEAN, Finish(t, throws)
       PROVE  TypeOK'
  <2>1. fib' \in [Jobs -> FiberType(Jobs \cup {NoJob})]
    <3>1. Cur(t) \in Jobs =>
            MainFuncEnds(fib[Cur(t)], throws, NoJob) \in FiberType(Jobs \cup {NoJob})
      BY FiberOpsType DEF TypeOK
    <3>. QED
      BY <1>10, <3>1 DEF Finish, TypeOK
  <2>2. status' \in [Jobs -> Statuses]
    BY <1>10 DEF TypeOK, Finish, Statuses
  <2>. QED
    BY <1>10, <2>1, <2>2 DEF TypeOK, Finish, Goto, PcValues, owner
<1>11. ASSUME NEW f \in Jobs, Wake(f)
       PROVE  TypeOK'
  <2>1. m_fibers' \in Seq(Fiber_and_Thread)
    <3>1. FiberEntry(f) \in Fiber_and_Thread
      BY EntryType
    <3>. QED
      BY <1>11, <3>1 DEF TypeOK, Wake, Schedule
  <2>. QED
    BY <1>11, <2>1 DEF TypeOK, Wake, locals, owner, history
<1>12. ASSUME NEW t \in Threads, Leave(t)
       PROVE  TypeOK'
  <2>1. fib' \in [Jobs -> FiberType(Jobs \cup {NoJob})]
    <3>1. Cur(t) \in Jobs =>
            SwapOut(fib[Cur(t)], pc[t] = "ended") \in FiberType(Jobs \cup {NoJob})
      BY FiberOpsType DEF TypeOK
    <3>. QED
      BY <1>12, <3>1 DEF Leave, TypeOK
  <2>2. pc' \in [Threads -> PcValues]
    BY <1>12 DEF TypeOK, Leave, Goto, PcValues
  <2>3. m_active_thread_count' \in Int
    BY <1>12 DEF TypeOK, Leave, Deactivate
  <2>. QED
    BY <1>12, <2>1, <2>2, <2>3 DEF TypeOK, Leave, owner, history
<1>13. ASSUME NEW t \in Threads, AfterFiber(t)
       PROVE  TypeOK'
  <2>1. ft[t].id \in Jobs
    BY <1>13 DEF AfterFiber, TypeOK, Fiber_and_Thread, NoTask
  <2>2. m_fibers' \in Seq(Fiber_and_Thread)
    <3>1. FiberEntry(ft[t].id) \in Fiber_and_Thread
      BY <2>1, EntryType
    <3>2. Schedule(FiberEntry(ft[t].id)) \/ UNCHANGED m_fibers
      BY <1>13 DEF AfterFiber
    <3>. QED
      BY <3>1, <3>2, ScheduleType DEF TypeOK
  <2>3. SetState(fib[ft[t].id], "HOLD") \in FiberType(Jobs \cup {NoJob})
    BY <2>1, FiberOpsType DEF TypeOK, FiberStates
  <2>4. fib' \in [Jobs -> FiberType(Jobs \cup {NoJob})]
    BY <1>13, <2>1, <2>3 DEF TypeOK, AfterFiber
  <2>. QED
    BY <1>13, <2>2, <2>4
    DEF TypeOK, AfterFiber, Goto, PcValues, NoTask, owner, history
<1>14. ASSUME NEW t \in Threads, AfterCb(t)
       PROVE  TypeOK'
  <2>. DEFINE f == cb_fiber[t]
  <2>1. f \in Jobs => /\ Reset(fib[f], NoJob) \in FiberType(Jobs \cup {NoJob})
                      /\ SetState(fib[f], "HOLD") \in FiberType(Jobs \cup {NoJob})
    BY FiberOpsType DEF TypeOK, FiberStates
  <2>2. fib' \in [Jobs -> FiberType(Jobs \cup {NoJob})]
    BY <1>14, <2>1 DEF TypeOK, AfterCb
  <2>3. m_fibers' \in Seq(Fiber_and_Thread)
    <3>1. f \in Jobs
      BY <1>14 DEF AfterCb, Dispatched, Cur
    <3>2. Schedule(FiberEntry(f)) \/ UNCHANGED m_fibers
      BY <1>14 DEF AfterCb
    <3>. QED
      BY <3>1, <3>2, EntryType, ScheduleType DEF TypeOK
  <2>4. cb_fiber' \in [Threads -> Jobs \cup {NoJob}]
    BY <1>14 DEF TypeOK, AfterCb
  <2>. QED
    BY <1>14, <2>2, <2>3, <2>4
    DEF TypeOK, AfterCb, Goto, PcValues, owner, history
<1>15. ASSUME NEW t \in Threads, Idle(t)
       PROVE  TypeOK'
  BY <1>15 DEF TypeOK, Idle, stopping, Goto, PcValues, shared, owner, history
<1>16. ASSUME NEW t \in Threads, Exit(t)
       PROVE  TypeOK'
  BY <1>16 DEF TypeOK, Exit, Goto, PcValues, shared, owner, history
<1>17. ASSUME Start
       PROVE  TypeOK'
  BY <1>17 DEF TypeOK, Start, NewIdleFibers, PcValues, owner, history
<1>18. ASSUME NEW j \in Jobs, NEW thread \in AppPins, AppSchedule(j, thread)
       PROVE  TypeOK'
  <2>1. m_fibers' \in Seq(Fiber_and_Thread)
    <3>1. Entry(j, thread) \in Fiber_and_Thread
      BY EntryType, SchedulerAssumption
    <3>2. Schedule(Entry(j, thread))
      BY <1>18 DEF AppSchedule
    <3>. QED
      BY <3>1, <3>2, ScheduleType
  <2>2. status' \in [Jobs -> Statuses]
    BY <1>18 DEF TypeOK, AppSchedule, Statuses
  <2>. QED
    BY <1>18, <2>1, <2>2 DEF TypeOK, AppSchedule, locals, owner
<1>19. ASSUME NEW j \in Jobs, NEW k \in Jobs, AppScheduleBatch(j, k)
       PROVE  TypeOK'
  <2>1. Entry(j, AnyThread) \in Fiber_and_Thread
        /\ Entry(k, AnyThread) \in Fiber_and_Thread
    BY EntryType
  <2>2. m_fibers' \in Seq(Fiber_and_Thread)
    BY <1>19, <2>1 DEF TypeOK, AppScheduleBatch
  <2>3. status' \in [Jobs -> Statuses]
    BY <1>19 DEF TypeOK, AppScheduleBatch, Statuses
  <2>. QED
    BY <1>19, <2>2, <2>3 DEF TypeOK, AppScheduleBatch, locals, owner
<1>20. ASSUME Stop
       PROVE  TypeOK'
  <2>1. rounds' \in Nat
    BY <1>20 DEF TypeOK, Stop
  <2>2. pc' \in [Threads -> PcValues] /\ idle_term' \in [Threads -> BOOLEAN]
    BY <1>20 DEF TypeOK, Stop, Goto, PcValues
  <2>3. crash' \in Faults
    BY <1>20 DEF TypeOK, Stop, Faults
  <2>4. caller' \in {"out", "root", "flag", "join"}
        /\ root_state' \in {"INIT", "EXEC", "TERM"}
    BY <1>20 DEF TypeOK, Stop
  <2>. QED
    BY <1>20, <2>1, <2>2, <2>3, <2>4 DEF TypeOK, Stop, shared
<1>21. ASSUME StopStep
       PROVE  TypeOK'
  <2>1. CASE RootReturn
    BY <2>1 DEF TypeOK, RootReturn, shared, locals, history
  <2>2. CASE SetStopping
    BY <2>2 DEF TypeOK, SetStopping, locals, history
  <2>3. CASE Join
    <3>1. rounds' \in Nat
      BY <2>3 DEF Join, TypeOK
    <3>. QED
      BY <2>3, <3>1 DEF TypeOK, Join, shared, locals
  <2>. QED
    BY <1>21, <2>1, <2>2, <2>3 DEF StopStep
<1>22. ASSUME UNCHANGED vars
       PROVE  TypeOK'
  BY <1>22 DEF TypeOK, vars, shared, locals, owner, history
<1>. QED
  BY <1>1, <1>2, <1>3, <1>4, <1>5, <1>6, <1>7, <1>8, <1>9, <1>10, <1>11,
     <1>12, <1>13, <1>14, <1>15, <1>16, <1>17, <1>18, <1>19, <1>20, <1>21,
     <1>22
  DEF Next, Step, Over, RunStep, UserStep, AppStep

\* Dispatched is an invariant of a well-typed scheduler.
LEMMA DispatchedStep == TypeOK /\ Dispatched /\ [Next]_vars => Dispatched'
<1>. DEFINE D(u) == /\ pc[u] = "got" => ft[u].kind \in {"cb", "fiber"}
                    /\ Active(u) \/ pc[u] = "after" => Cur(u) \in Jobs
<1>. SUFFICES ASSUME TypeOK, Dispatched, [Next]_vars, NEW u \in Threads
              PROVE  D(u)'
  BY DEF Dispatched
<1>0. D(u)
  BY DEF Dispatched
<1>. USE DEF Active, Cur, Goto
<1>1. ASSUME NEW t \in Threads, TakeTask(t)
      PROVE  D(u)'
  <2>1. PICK i \in DOMAIN m_fibers : ft' = [ft EXCEPT ![t] = m_fibers[i]]
    BY <1>1 DEF TakeTask
  <2>2. m_fibers[i] \in Fiber_and_Thread
    BY DEF TypeOK
  <2>3. ft'[t].kind \in {"cb", "fiber"}
    BY <2>1, <2>2 DEF TypeOK, Fiber_and_Thread
  <2>. QED
    BY <1>0, <1>1, <2>1, <2>3 DEF TakeTask, TypeOK
<1>2. ASSUME NEW t \in Threads, FindNothing(t)
      PROVE  D(u)'
  BY <1>0, <1>2 DEF FindNothing, TypeOK
<1>3. ASSUME NEW t \in Threads, DispatchFiber(t)
      PROVE  D(u)'
  <2>1. ft[t].id \in Jobs
    BY <1>3 DEF DispatchFiber, TypeOK, Fiber_and_Thread, NoTask
  <2>. QED
    BY <1>0, <1>3, <2>1 DEF DispatchFiber, TypeOK, NoTask
<1>4. ASSUME NEW t \in Threads, DispatchCb(t)
      PROVE  D(u)'
  <2>1. ft[t].id \in Jobs
    BY <1>4 DEF DispatchCb, TypeOK, Fiber_and_Thread, NoTask
  <2>. QED
    BY <1>0, <1>4, <2>1 DEF DispatchCb, TypeOK, NoTask
<1>5. ASSUME NEW t \in Threads, Resume(t)
      PROVE  D(u)'
  BY <1>0, <1>5 DEF Resume, TypeOK
<1>6. ASSUME NEW t \in Threads, Leave(t)
      PROVE  D(u)'
  BY <1>0, <1>6 DEF Leave, TypeOK
<1>7. ASSUME NEW t \in Threads, AfterFiber(t)
      PROVE  D(u)'
  BY <1>0, <1>7 DEF AfterFiber, TypeOK
<1>8. ASSUME NEW t \in Threads, AfterCb(t)
      PROVE  D(u)'
  BY <1>0, <1>8 DEF AfterCb, TypeOK
<1>9. ASSUME NEW t \in Threads, Idle(t)
      PROVE  D(u)'
  BY <1>0, <1>9 DEF Idle, TypeOK
<1>10. ASSUME NEW t \in Threads, Exit(t)
       PROVE  D(u)'
  BY <1>0, <1>10 DEF Exit, TypeOK
<1>11. ASSUME NEW t \in Threads, NEW j \in Jobs, NEW thread \in SpawnPins,
             UserSchedule(t, j, thread)
       PROVE  D(u)'
  BY <1>0, <1>11 DEF UserSchedule, TypeOK, locals
<1>12. ASSUME NEW t \in Threads, YieldToReady(t)
       PROVE  D(u)'
  BY <1>0, <1>12 DEF YieldToReady, TypeOK
<1>13. ASSUME NEW t \in Threads, Register(t)
       PROVE  D(u)'
  BY <1>0, <1>13 DEF Register, TypeOK
<1>14. ASSUME NEW t \in Threads, YieldToHold(t)
       PROVE  D(u)'
  BY <1>0, <1>14 DEF YieldToHold, TypeOK
<1>15. ASSUME NEW t \in Threads, NEW throws \in BOOLEAN, Finish(t, throws)
       PROVE  D(u)'
  BY <1>0, <1>15 DEF Finish, TypeOK
<1>16. ASSUME NEW f \in Jobs, Wake(f)
       PROVE  D(u)'
  BY <1>0, <1>16 DEF Wake, locals
<1>17. ASSUME AppStep
       PROVE  D(u)'
  BY <1>0, <1>17 DEF AppStep, Start, Stop, AppSchedule, AppScheduleBatch,
                    locals, TypeOK
<1>18. ASSUME StopStep
       PROVE  D(u)'
  BY <1>0, <1>18 DEF StopStep, RootReturn, SetStopping, Join, locals
<1>19. ASSUME UNCHANGED vars
       PROVE  D(u)'
  BY <1>0, <1>19 DEF vars, locals
<1>. QED
  BY <1>1, <1>2, <1>3, <1>4, <1>5, <1>6, <1>7, <1>8, <1>9, <1>10, <1>11,
     <1>12, <1>13, <1>14, <1>15, <1>16, <1>17, <1>18, <1>19
  DEF Next, Step, Over, RunStep, UserStep

\* The constructor's state is well typed.
LEMMA InitTyped == Init => TypeOK /\ Dispatched
  BY SchedulerAssumption
  DEF Init, TypeOK, NewFiber, Unborn, FiberType, FiberStates, Contexts,
      NoTask, PcValues, Statuses, Faults, Jobs, Dispatched, Active

\* Every state the scheduler reaches is well typed.
THEOREM TypeCorrect == Spec => []TypeOK
  BY InitTyped, TypeStep, DispatchedStep, PTL DEF Spec

-----------------------------------------------------------------------------
(* m_active_thread_count *)

\* What one thread's step does to the set of active threads and to the count.
LEMMA ActiveStep ==
    ASSUME TypeOK, NEW t \in Threads, RunStep(t) \/ UserStep(t)
    PROVE  /\ \A u \in Threads \ {t} : pc'[u] = pc[u]
           /\ UNCHANGED <<m_stopping, owner>>
           /\ ~Gone(t)
           /\ \/ Active(t)' = Active(t)
                 /\ UNCHANGED m_active_thread_count
              \/ ~Active(t) /\ Active(t)'
                 /\ m_active_thread_count' = m_active_thread_count + 1
              \/ Active(t) /\ ~Active(t)'
                 /\ m_active_thread_count' = m_active_thread_count - 1
<1>. USE DEF Active, Gone, Goto
<1>1. CASE TakeTask(t)
  BY <1>1 DEF TakeTask, TypeOK
<1>2. CASE FindNothing(t)
  BY <1>2 DEF FindNothing, TypeOK, shared
<1>3. CASE DispatchFiber(t)
  BY <1>3 DEF DispatchFiber, TypeOK, Activate
<1>4. CASE DispatchCb(t)
  BY <1>4 DEF DispatchCb, TypeOK, Activate
<1>5. CASE Resume(t)
  BY <1>5 DEF Resume, TypeOK
<1>6. CASE Leave(t)
  BY <1>6 DEF Leave, TypeOK, Deactivate
<1>7. CASE AfterFiber(t)
  BY <1>7 DEF AfterFiber, TypeOK
<1>8. CASE AfterCb(t)
  BY <1>8 DEF AfterCb, TypeOK
<1>9. CASE Idle(t)
  BY <1>9 DEF Idle, TypeOK, shared
<1>10. CASE Exit(t)
  BY <1>10 DEF Exit, TypeOK, shared
<1>11. CASE UserStep(t)
  BY <1>11 DEF UserStep, UserSchedule, YieldToReady, Register, YieldToHold,
               Finish, TypeOK, locals
<1>. QED
  BY <1>1, <1>2, <1>3, <1>4, <1>5, <1>6, <1>7, <1>8, <1>9, <1>10, <1>11
  DEF RunStep

\* start() and stop() keep threads out of run() where Parked says so.
LEMMA ParkedStep == TypeOK /\ Parked /\ [Next]_vars => Parked'
<1>. SUFFICES ASSUME TypeOK, Parked, [Next]_vars
              PROVE  Parked'
  OBVIOUS
<1>. USE SchedulerAssumption DEF Gone, Threads
<1>1. ASSUME NEW t \in Threads, RunStep(t) \/ UserStep(t)
      PROVE  Parked'
  BY <1>1, ActiveStep DEF Parked, owner
<1>2. ASSUME NEW f \in Jobs, Wake(f)
      PROVE  Parked'
  BY <1>2 DEF Wake, Parked, locals, owner
<1>3. CASE Start
  BY <1>3 DEF Start, Parked, owner, TypeOK
<1>4. CASE Stop
  BY <1>4 DEF Stop, Parked, shared, Goto, TypeOK
<1>5. ASSUME NEW j \in Jobs, NEW thread \in AppPins, AppSchedule(j, thread)
      PROVE  Parked'
  BY <1>5 DEF AppSchedule, Parked, locals, owner
<1>6. ASSUME NEW j \in Jobs, NEW k \in Jobs, AppScheduleBatch(j, k)
      PROVE  Parked'
  BY <1>6 DEF AppScheduleBatch, Parked, locals, owner
<1>7. CASE StopStep
  BY <1>7 DEF StopStep, RootReturn, SetStopping, Join, Parked, locals, shared
<1>8. CASE UNCHANGED vars
  BY <1>8 DEF vars, Parked, locals, owner, shared
<1>. QED
  BY <1>1, <1>2, <1>3, <1>4, <1>5, <1>6, <1>7, <1>8
  DEF Next, Step, Over, AppStep

\* A set of threads with one member more or less.
LEMMA CountOne ==
    ASSUME NEW A \in SUBSET Threads, NEW t \in Threads
    PROVE  /\ Cardinality(A) \in Nat
           /\ t \notin A => Cardinality(A \cup {t}) = Cardinality(A) + 1
           /\ t \in A => Cardinality(A \ {t}) = Cardinality(A) - 1
<1>1. IsFiniteSet(Threads)
  BY SchedulerAssumption, FS_Union, FS_Singleton, FS_EmptySet DEF Threads
<1>2. IsFiniteSet(A)
  BY <1>1, FS_Subset
<1>. QED
  BY <1>2, FS_AddElement, FS_RemoveElement, FS_CardinalityType

\* Every action keeps m_active_thread_count exact.
LEMMA ActiveCountStep ==
    TypeOK /\ Parked /\ ActiveCountExact /\ [Next]_vars => ActiveCountExact'
<1>. SUFFICES ASSUME TypeOK, Parked, ActiveCountExact, [Next]_vars
              PROVE  ActiveCountExact'
  OBVIOUS
<1>. DEFINE A == {u \in Threads : Active(u)}
<1>0. A \in SUBSET Threads /\ m_active_thread_count = Cardinality(A)
  BY DEF ActiveCountExact
<1>1. ASSUME NEW t \in Threads, RunStep(t) \/ UserStep(t)
      PROVE  ActiveCountExact'
  <2>1. \A u \in Threads \ {t} : Active(u)' = Active(u)
    BY <1>1, ActiveStep DEF Active
  <2>2. CASE Active(t)' = Active(t) /\ UNCHANGED m_active_thread_count
    <3>1. A' = A
      BY <2>1, <2>2
    <3>. QED
      BY <1>0, <3>1, <2>2 DEF ActiveCountExact
  <2>3. CASE /\ ~Active(t) /\ Active(t)'
             /\ m_active_thread_count' = m_active_thread_count + 1
    <3>1. A' = A \cup {t} /\ t \notin A
      BY <2>1, <2>3
    <3>2. Cardinality(A') = Cardinality(A) + 1
      BY <1>0, <3>1, CountOne
    <3>. QED
      BY <1>0, <3>2, <2>3 DEF ActiveCountExact
  <2>4. CASE /\ Active(t) /\ ~Active(t)'
             /\ m_active_thread_count' = m_active_thread_count - 1
    <3>1. A' = A \ {t} /\ t \in A
      BY <2>1, <2>4
    <3>2. Cardinality(A') = Cardinality(A) - 1
      BY <1>0, <3>1, CountOne
    <3>. QED
      BY <1>0, <3>2, <2>4 DEF ActiveCountExact
  <2>. QED
    BY <1>1, ActiveStep, <2>2, <2>3, <2>4
<1>2. CASE /\ \A u \in Threads : Active(u)' = Active(u)
           /\ UNCHANGED m_active_thread_count
  <2>1. A' = A
    BY <1>2
  <2>. QED
    BY <1>0, <1>2, <2>1 DEF ActiveCountExact
<1>. USE DEF Active, Gone
<1>3. ASSUME NEW f \in Jobs, Wake(f)
      PROVE  ActiveCountExact'
  BY <1>2, <1>3 DEF Wake, locals
<1>4. CASE Start
  <2>1. \A u \in Threads : pc'[u] = IF u \in Workers THEN "scan" ELSE pc[u]
    BY <1>4 DEF Start
  <2>2. \A u \in Workers : ~Active(u)
    BY <1>4 DEF Start, Parked
  <2>. QED
    BY <1>2, <1>4, <2>1, <2>2 DEF Start
<1>5. CASE Stop
  <2>1. UseCaller => ~Active(Root)
    BY <1>5 DEF Stop, Parked
  <2>2. \A u \in Threads : pc'[u] = pc[u] \/ (UseCaller /\ u = Root /\ pc'[u] = "scan")
    BY <1>5 DEF Stop, Goto, TypeOK
  <2>. QED
    BY <1>2, <1>5, <2>1, <2>2 DEF Stop, shared
<1>6. ASSUME NEW j \in Jobs, NEW thread \in AppPins, AppSchedule(j, thread)
      PROVE  ActiveCountExact'
  BY <1>2, <1>6 DEF AppSchedule, locals
<1>7. ASSUME NEW j \in Jobs, NEW k \in Jobs, AppScheduleBatch(j, k)
      PROVE  ActiveCountExact'
  BY <1>2, <1>7 DEF AppScheduleBatch, locals
<1>8. CASE StopStep
  BY <1>2, <1>8 DEF StopStep, RootReturn, SetStopping, Join, locals, shared
<1>9. CASE UNCHANGED vars
  BY <1>2, <1>9 DEF vars, locals, shared
<1>. QED
  BY <1>1, <1>3, <1>4, <1>5, <1>6, <1>7, <1>8, <1>9
  DEF Next, Step, Over, AppStep

\* m_active_thread_count is always exactly the number of threads between the
\* increment before swapIn and the decrement after it, whatever the scheduled
\* functions do (throw, yield, hold, schedule) and however the scheduler is
\* started and stopped.
THEOREM ActiveCountCorrect == Spec => []ActiveCountExact
<1>1. Init => TypeOK /\ Dispatched /\ Parked /\ ActiveCountExact
  <2>1. Init => TypeOK /\ Dispatched
    BY InitTyped
  <2>2. Init => Parked
    BY DEF Init, Parked, Gone, Threads
  <2>3. ASSUME Init
        PROVE  ActiveCountExact
    <3>1. {t \in Threads : Active(t)} = {}
      BY <2>3 DEF Init, Active
    <3>. QED
      BY <2>3, <3>1, FS_EmptySet DEF Init, ActiveCountExact
  <2>. QED
    BY <2>1, <2>2, <2>3
<1>. QED
  BY <1>1, TypeStep, DispatchedStep, ParkedStep, ActiveCountStep, PTL DEF Spec
=============================================================================
