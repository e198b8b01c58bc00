----------------------------- MODULE TaskProofs -----------------------------
(***************************************************************************)
(* What Scheduler::run does with the functions it is given.  For every set *)
(* of threads and functions, as long as no function holds and no callback  *)
(* yields: a function has one representative, no fiber is executed by two  *)
(* threads, no assertion of fiber.cc fails, stop() leaves nothing behind,  *)
(* and Scheduler implements TaskPool.  For functions that hold, with one   *)
(* thread (last part): a function that holds has one reference by which it *)
(* is resumed, and no assertion of fiber.cc fails.                         *)
(***************************************************************************)
EXTENDS SchedulerProofs

\* Functions return, throw and schedule; fibers also yield as READY.
\* (Functions that hold are the subject of the last part.)
NoHolds == "hold" \notin CbOps \cup FiberOps /\ "ready" \notin CbOps

-----------------------------------------------------------------------------
(* The inductive invariant *)

\* Thread t has a fiber dispatched or is just back from it.
Busy(t) == Active(t) \/ pc[t] = "after"

\* The functions m_fibers has entries of.
Listed == {m_fibers[i].id : i \in DOMAIN m_fibers}

\* An entry of a callback is a std::function, one of a user fiber a Fiber::ptr.
RightKind(e) == e.kind = IF e.id \in Cbs THEN "cb" ELSE "fiber"

\* No function has two entries.
ListOK ==
    /\ \A i \in DOMAIN m_fibers : RightKind(m_fibers[i])
    /\ \A i, k \in DOMAIN m_fibers : i # k => m_fibers[i].id # m_fibers[k].id

\* Function j, listed or taken, can be dispatched: a callback has not begun, a
\* user fiber is new, or READY with its context saved.
Ready(j) ==
    /\ j \in Cbs => status[j] = "submitted"
    /\ j \in UserFibers =>
        /\ fib[j].job = j
        /\ \/ status[j] = "submitted" /\ fib[j].state = "INIT" /\ fib[j].ctx = "fresh"
           \/ status[j] = "begun" /\ fib[j].state = "READY" /\ fib[j].ctx = "saved"

\* Fiber f as swapIn, and as the return from it, find it.
Enterable(t, f) ==
    /\ f.job \in Jobs
    /\ \/ f.state = "INIT" /\ f.ctx = "fresh" /\ status[f.job] = "submitted"
       \/ /\ f.state = "READY" /\ f.ctx = "saved" /\ status[f.job] = "begun"
          /\ ft[t].kind = "fiber"

Ended(f) ==
    /\ f.state \in {"TERM", "EXCPT"}
    /\ f.job \in Jobs => status[f.job] = "finished"

\* A user fiber runs its own function, a callback's fiber some callback.
OwnJob(t, f) == IF ft[t].kind = "fiber" THEN f.job = ft[t].id ELSE f.job \in Cbs

\* The fiber of thread t at each place of run().
Dispatch(t) ==
    LET f == fib[Cur(t)]
    IN  /\ pc[t] = "swapIn" => Enterable(t, f) /\ OwnJob(t, f)
        /\ pc[t] = "user" => /\ f.state = "EXEC" /\ f.ctx = "live" /\ f.job \in Jobs
                             /\ status[f.job] = "begun" /\ OwnJob(t, f)
        /\ pc[t] = "yielded" => /\ f.state = "READY" /\ f.job \in Jobs
                                /\ status[f.job] = "begun" /\ OwnJob(t, f)
                                /\ ft[t].kind = "fiber"
        /\ pc[t] = "ended" => Ended(f)
        /\ pc[t] = "after" => \/ Ended(f)
                              \/ Enterable(t, f) /\ OwnJob(t, f) /\ f.state = "READY"

\* What thread t has in ft.
Taken(t) ==
    /\ pc[t] # "hold"
    /\ pc[t] \in {"off", "scan", "none", "exited"} => ft[t] = NoTask
    /\ pc[t] = "got" => ft[t].id \in Jobs /\ RightKind(ft[t]) /\ Ready(ft[t].id)
    /\ Busy(t) => \/ ft[t] = NoTask /\ cb_fiber[t] # NoJob
                  \/ /\ ft[t].kind = "fiber" /\ ft[t].id \in UserFibers
                     /\ status[ft[t].id] # "fresh"

\* Thread t answers for function j.
Answers(t, j) ==
    \/ pc[t] = "got" /\ ft[t].id = j
    \/ pc[t] \in {"swapIn", "user", "yielded"} /\ fib[Cur(t)].job = j
    \/ pc[t] = "after" /\ fib[Cur(t)].state = "READY" /\ fib[Cur(t)].job = j

\* Thread t's cb_fiber is named after a callback that was dispatched, and can
\* be reset whenever t is not on it.
CbFiberOK(t) ==
    cb_fiber[t] # NoJob =>
        /\ cb_fiber[t] \in Cbs
        /\ \/ status[cb_fiber[t]] \in {"begun", "finished"}
           \/ status[cb_fiber[t]] = "submitted" /\ Answers(t, cb_fiber[t])
        /\ ~Busy(t) \/ ft[t].kind = "fiber" => fib[cb_fiber[t]].state = "INIT"

\* No two threads have the same fiber.
Separate ==
    \A t, u \in Threads : t # u =>
        /\ Busy(t) /\ Busy(u) => Cur(t) # Cur(u)
        /\ cb_fiber[t] # NoJob => cb_fiber[t] # cb_fiber[u]
        /\ \A j \in Jobs : Answers(t, j) => ~Answers(u, j)

\* The representatives of the functions.
Represented ==
    /\ \A j \in Listed : Ready(j) /\ \A t \in Threads : ~Answers(t, j)
    /\ \A j \in Jobs : status[j] \in {"submitted", "begun"} =>
            j \in Listed \/ \E t \in Threads : Answers(t, j)
    /\ \A j \in UserFibers : status[j] = "fresh" => fib[j] = NewFiber(j)

Inv ==
    /\ TypeOK /\ Dispatched
    /\ ListOK
    /\ \A t \in Threads : Taken(t) /\ Dispatch(t) /\ CbFiberOK(t)
    /\ Separate
    /\ Represented
    /\ waiters = {}
    /\ crash # "none" => caller = "root"

-----------------------------------------------------------------------------
(* The list *)

LEMMA ListedJobs == ASSUME TypeOK PROVE Listed \subseteq Jobs
<1>1. \A i \in DOMAIN m_fibers : m_fibers[i] \in Fiber_and_Thread
  BY DEF TypeOK
<1>2. \A e \in Fiber_and_Thread : e.id \in Jobs
  BY DEF Fiber_and_Thread
<1>. QED
  BY <1>1, <1>2 DEF Listed

\* push_back of an entry of a function that has none.
LEMMA AppendList ==
    ASSUME TypeOK, ListOK, NEW e \in Fiber_and_Thread, RightKind(e), e.id \notin Listed,
           m_fibers' = Append(m_fibers, e)
    PROVE  ListOK' /\ Listed' = Listed \cup {e.id}
<1>. DEFINE n == Len(m_fibers)
<1>1. /\ n \in Nat /\ DOMAIN m_fibers = 1..n /\ DOMAIN m_fibers' = 1..(n + 1)
      /\ \A i \in 1..n : m_fibers'[i] = m_fibers[i]
      /\ m_fibers'[n + 1] = e
  BY DEF TypeOK
<1>2. \A i \in 1..n : m_fibers[i].id \in Listed
  BY <1>1 DEF Listed
<1>3. \A i \in 1..(n + 1) : i \in 1..n \/ i = n + 1
  BY <1>1
<1>. HIDE DEF n
<1>4. Listed' = Listed \cup {e.id}
  <2>1. Listed' = {m_fibers'[i].id : i \in 1..(n + 1)}
    BY <1>1 DEF Listed
  <2>2. Listed = {m_fibers[i].id : i \in 1..n}
    BY <1>1 DEF Listed
  <2>3. 1..n \subseteq 1..(n + 1) /\ n + 1 \in 1..(n + 1)
    BY <1>1
  <2>. QED
    BY <1>1, <1>3, <2>1, <2>2, <2>3
<1>5. ListOK'
  <2>1. \A i \in 1..(n + 1) : RightKind(m_fibers'[i])
    BY <1>1, <1>3 DEF ListOK
  <2>2. \A i, k \in 1..(n + 1) : i # k => m_fibers'[i].id # m_fibers'[k].id
    BY <1>1, <1>2, <1>3 DEF ListOK
  <2>. QED
    BY <1>1, <2>1, <2>2 DEF ListOK, RightKind
<1>. QED
  BY <1>4, <1>5

\* Every other entry has a place in the list without entry i.
LEMMA Preimage ==
    ASSUME NEW n \in Nat, NEW i \in 1..n, NEW m \in 1..n, m # i
    PROVE  \E k \in 1..(n - 1) : (IF k < i THEN k ELSE k + 1) = m
<1>1. CASE m < i
  <2>1. m \in 1..(n - 1) /\ (IF m < i THEN m ELSE m + 1) = m
    BY <1>1
  <2>. QED
    BY <2>1
<1>2. CASE ~(m < i)
  <2>1. m - 1 \in 1..(n - 1) /\ ~(m - 1 < i) /\ (m - 1) + 1 = m
    BY <1>2
  <2>2. (IF m - 1 < i THEN m - 1 ELSE (m - 1) + 1) = m
    BY <2>1
  <2>. QED
    BY <2>1, <2>2
<1>. QED
  BY <1>1, <1>2

\* erase of one entry.
LEMMA RemoveList ==
    ASSUME TypeOK, ListOK, NEW i \in DOMAIN m_fibers, m_fibers' = RemoveAt(m_fibers, i)
    PROVE  ListOK' /\ Listed' = Listed \ {m_fibers[i].id}
<1>. DEFINE n == Len(m_fibers)
            From(k) == IF k < i THEN k ELSE k + 1
<1>1. n \in Nat /\ DOMAIN m_fibers = 1..n /\ i \in 1..n
  BY DEF TypeOK
<1>2. m_fibers' \in Seq(Fiber_and_Thread) /\ Len(m_fibers') = n - 1
  BY <1>1, RemoveAtFacts DEF TypeOK
<1>3. DOMAIN m_fibers' = 1..(n - 1)
  BY <1>2
<1>4. \A k \in 1..(n - 1) : m_fibers'[k] = m_fibers[From(k)]
  BY <1>1, RemoveAtFacts DEF TypeOK
<1>. HIDE DEF n
<1>5. \A k \in 1..(n - 1) : From(k) \in 1..n /\ From(k) # i
  BY <1>1
<1>6. \A k, l \in 1..(n - 1) : k # l => From(k) # From(l)
  BY <1>1
<1>7. \A m \in 1..n : m # i => \E k \in 1..(n - 1) : From(k) = m
  BY <1>1, Preimage
<1>. HIDE DEF From
<1>8. ListOK'
  BY <1>1, <1>3, <1>4, <1>5, <1>6 DEF ListOK, RightKind
<1>9. Listed' = Listed \ {m_fibers[i].id}
  <2>1. \A k \in 1..(n - 1) : m_fibers'[k].id \in Listed \ {m_fibers[i].id}
    BY <1>1, <1>4, <1>5 DEF ListOK, Listed
  <2>2. ASSUME NEW j \in Listed, j # m_fibers[i].id PROVE j \in Listed'
    <3>1. PICK m \in 1..n : m_fibers[m].id = j
      BY <1>1 DEF Listed
    <3>2. PICK k \in 1..(n - 1) : From(k) = m
      BY <1>7, <2>2, <3>1
    <3>. QED
      BY <1>3, <1>4, <3>1, <3>2 DEF Listed
  <2>3. \A j \in Listed' : j \in Listed \ {m_fibers[i].id}
    BY <1>3, <2>1 DEF Listed
  <2>. QED
    BY <2>2, <2>3
<1>. QED
  BY <1>8, <1>9

-----------------------------------------------------------------------------
(* What a step of one thread means to the others *)

\* The fiber thread t is on is no other thread's, and has no entry.
LEMMA CurPrivate ==
    ASSUME Inv, NEW t \in Threads, Busy(t)
    PROVE  /\ Cur(t) \in Jobs
           /\ Cur(t) \in UserFibers => Cur(t) \notin Listed /\ status[Cur(t)] # "fresh"
           /\ \A u \in Threads \ {t} :
                  /\ Busy(u) => Cur(u) # Cur(t)
                  /\ cb_fiber[u] # Cur(t)
                  /\ pc[u] = "got" => ft[u].id # Cur(t) \/ Cur(t) \in Cbs
<1>. USE SchedulerAssumption
<1>1. Cur(t) \in Jobs
  BY DEF Inv, Dispatched, Busy
<1>2. \/ ft[t].kind = "fiber" /\ Cur(t) = ft[t].id /\ Cur(t) \in UserFibers
         /\ status[Cur(t)] # "fresh"
      \/ ft[t].kind # "fiber" /\ Cur(t) = cb_fiber[t] /\ Cur(t) \in Cbs
  BY DEF Inv, Taken, CbFiberOK, Cur, NoTask
<1>3. ASSUME Cur(t) \in UserFibers, Ready(Cur(t)) PROVE Answers(t, Cur(t))
  <2>1. ft[t].kind = "fiber" /\ Cur(t) = ft[t].id
    BY <1>2, <1>3
  <2>2. fib[Cur(t)].state \in {"INIT", "READY"}
    BY <1>3 DEF Ready
  <2>3. pc[t] \in {"swapIn", "user", "yielded", "ended", "after"}
    BY DEF Busy, Active, Inv, Taken
  <2>. QED
    BY <2>1, <2>2, <2>3 DEF Inv, Dispatch, OwnJob, Ended, Answers
<1>4. Cur(t) \in UserFibers => Cur(t) \notin Listed
  BY <1>3 DEF Inv, Represented
<1>5. ASSUME NEW u \in Threads \ {t}
      PROVE  /\ Busy(u) => Cur(u) # Cur(t)
             /\ cb_fiber[u] # Cur(t)
             /\ pc[u] = "got" => ft[u].id # Cur(t) \/ Cur(t) \in Cbs
  <2>1. Busy(u) => Cur(u) # Cur(t)
    BY DEF Inv, Separate
  <2>2. cb_fiber[u] # Cur(t)
    BY <1>1, <1>2 DEF Inv, Separate, CbFiberOK, Jobs
  <2>3. ASSUME pc[u] = "got", ft[u].id = Cur(t), Cur(t) \notin Cbs PROVE FALSE
    <3>1. Answers(u, Cur(t)) /\ Ready(Cur(t)) /\ Cur(t) \in UserFibers
      BY <1>2, <2>3 DEF Answers, Inv, Taken
    <3>. QED
      BY <1>1, <1>3, <3>1 DEF Inv, Separate
  <2>. QED
    BY <2>1, <2>2, <2>3
<1>. QED
  BY <1>1, <1>2, <1>4, <1>5

\* A step of t that changes at most fiber x and the status of function y, of
\* which the others know nothing, ...
Spares(t, x, y) ==
    /\ \A u \in Threads \ {t} :
           /\ pc'[u] = pc[u] /\ ft'[u] = ft[u] /\ cb_fiber'[u] = cb_fiber[u]
           /\ x \in Jobs => /\ Busy(u) => Cur(u) # x
                            /\ cb_fiber[u] # x
                            /\ pc[u] = "got" => ft[u].id # x \/ x \in Cbs
           /\ y \in Jobs => ~Answers(u, y)
    /\ \A f \in Jobs \ {x} : fib'[f] = fib[f]
    /\ \A j \in Jobs \ {y} : status'[j] = status[j]
    /\ y \in Jobs => /\ status[y] # "finished"
                     /\ \/ status'[y] \in {"begun", "finished"}
                        \/ status[y] = "fresh" /\ status'[y] = "submitted"

\* ... leaves the others as they were, ...
LEMMA OthersKept ==
    ASSUME Inv, NEW t \in Threads, NEW x, NEW y,
           Spares(t, x, y)
    PROVE  \A u \in Threads \ {t} :
               /\ Taken(u)' /\ Dispatch(u)' /\ CbFiberOK(u)'
               /\ Busy(u)' <=> Busy(u)
               /\ Cur(u)' = Cur(u)
               /\ \A j \in Jobs : Answers(u, j)' <=> Answers(u, j)
<1>. SUFFICES ASSUME NEW u \in Threads \ {t}
              PROVE  /\ Taken(u)' /\ Dispatch(u)' /\ CbFiberOK(u)'
                     /\ Busy(u)' <=> Busy(u)
                     /\ Cur(u)' = Cur(u)
                     /\ \A j \in Jobs : Answers(u, j)' <=> Answers(u, j)
  OBVIOUS
<1>. USE SchedulerAssumption
<1>0. /\ pc'[u] = pc[u] /\ ft'[u] = ft[u] /\ cb_fiber'[u] = cb_fiber[u]
      /\ x \in Jobs => /\ Busy(u) => Cur(u) # x
                       /\ cb_fiber[u] # x
                       /\ pc[u] = "got" => ft[u].id # x \/ x \in Cbs
      /\ y \in Jobs => ~Answers(u, y)
  BY DEF Spares
<1>0a. /\ \A f \in Jobs \ {x} : fib'[f] = fib[f]
       /\ \A j \in Jobs \ {y} : status'[j] = status[j]
       /\ y \in Jobs => /\ status[y] # "finished"
                        /\ \/ status'[y] \in {"begun", "finished"}
                           \/ status[y] = "fresh" /\ status'[y] = "submitted"
  BY DEF Spares
<1>. USE <1>0a
<1>1. (Busy(u)' <=> Busy(u)) /\ Cur(u)' = Cur(u)
  BY <1>0 DEF Busy, Active, Cur
<1>2. Busy(u) => fib'[Cur(u)] = fib[Cur(u)] /\ Cur(u) \in Jobs
  BY <1>0 DEF Inv, Dispatched, Busy
<1>3. \A j \in Jobs : Answers(u, j)' <=> Answers(u, j)
  BY <1>0, <1>1, <1>2 DEF Answers, Busy, Active
<1>4. Taken(u)'
  <2>1. Taken(u)
    BY DEF Inv
  <2>2. ASSUME pc[u] = "got" PROVE Ready(ft[u].id)'
    <3>1. ft[u].id \in Jobs /\ Ready(ft[u].id) /\ ft[u].id # y
      BY <1>0, <2>1, <2>2 DEF Taken, Answers
    <3>2. status'[ft[u].id] = status[ft[u].id]
      BY <3>1
    <3>3. ft[u].id \in UserFibers => fib'[ft[u].id] = fib[ft[u].id]
      BY <1>0, <2>2, <3>1
    <3>. QED
      BY <1>0, <3>1, <3>2, <3>3 DEF Ready
  <2>3. ASSUME ft[u].id \in UserFibers, status[ft[u].id] # "fresh"
        PROVE  status'[ft[u].id] # "fresh"
    BY <2>3 DEF Jobs
  <2>. QED
    BY <1>0, <1>1, <2>1, <2>2, <2>3 DEF Taken, RightKind
<1>5. Dispatch(u)'
  <2>1. Dispatch(u) /\ Taken(u)
    BY DEF Inv
  <2>2. CASE ~Busy(u)
    BY <1>0, <2>2 DEF Dispatch, Busy, Active
  <2>3. CASE Busy(u)
    <3>. DEFINE f == fib[Cur(u)]
    <3>1. f' = f /\ f.job \in Jobs \cup {NoJob}
      BY <1>1, <1>2, <2>3 DEF Inv, TypeOK, FiberType
    <3>2. ASSUME f.job \in Jobs, status[f.job] = "finished"
          PROVE  status'[f.job] = "finished"
      BY <3>2
    <3>3. ASSUME f.job \in Jobs, Answers(u, f.job) PROVE status'[f.job] = status[f.job]
      BY <1>0, <3>3
    <3>. QED
      BY <1>0, <1>1, <2>1, <2>3, <3>1, <3>2, <3>3 DEF Dispatch, Enterable, Ended, OwnJob,
         Answers, Busy, Active
  <2>. QED
    BY <2>2, <2>3
<1>6. CbFiberOK(u)'
  <2>1. CbFiberOK(u)
    BY DEF Inv
  <2>2. CASE cb_fiber[u] = NoJob
    BY <1>0, <2>2 DEF CbFiberOK
  <2>3. CASE cb_fiber[u] # NoJob
    <3>1. cb_fiber[u] \in Jobs /\ fib'[cb_fiber[u]] = fib[cb_fiber[u]]
      BY <1>0, <2>1, <2>3 DEF CbFiberOK, Jobs
    <3>. QED
      BY <1>0, <1>1, <1>3, <2>1, <2>3, <3>1 DEF CbFiberOK
  <2>. QED
    BY <2>2, <2>3
<1>. QED
  BY <1>1, <1>3, <1>4, <1>5, <1>6

\* ... so that it remains to look at t itself, at its fiber and at the list.
LEMMA StepKeeps ==
    ASSUME Inv, TypeOK', Dispatched', NEW t \in Threads, NEW x, NEW y,
           Spares(t, x, y),
           x \in UserFibers => status[x] # "fresh",
           UNCHANGED <<waiters, crash, caller>>,
           Taken(t)' /\ Dispatch(t)' /\ CbFiberOK(t)' /\ ListOK',
           \A u \in Threads \ {t} :
               /\ Busy(t)' /\ Busy(u) => Cur(t)' # Cur(u)
               /\ cb_fiber'[t] # NoJob => cb_fiber'[t] # cb_fiber[u]
               /\ \A j \in Jobs : Answers(t, j)' => ~Answers(u, j),
           \A j \in Listed' :
               /\ j \in Jobs
               /\ ~Answers(t, j)'
               /\ \/ j \in Listed /\ j # y /\ (j \in UserFibers => j # x)
                  \/ Ready(j)' /\ \A u \in Threads \ {t} : ~Answers(u, j),
           \A j \in Jobs : status'[j] \in {"submitted", "begun"} =>
               \/ j \in Listed' \/ Answers(t, j)'
               \/ /\ status[j] \in {"submitted", "begun"}
                  /\ j \notin Listed /\ ~Answers(t, j)
    PROVE  Inv'
<1>. USE SchedulerAssumption
<1>1. \A u \in Threads \ {t} :
          /\ Taken(u)' /\ Dispatch(u)' /\ CbFiberOK(u)'
          /\ Busy(u)' <=> Busy(u)
          /\ Cur(u)' = Cur(u)
          /\ \A j \in Jobs : Answers(u, j)' <=> Answers(u, j)
  BY OthersKept
<1>. USE DEF Spares
<1>2. \A u \in Threads : Taken(u)' /\ Dispatch(u)' /\ CbFiberOK(u)'
  BY <1>1
<1>3. Separate'
  <2>. SUFFICES ASSUME NEW u \in Threads, NEW v \in Threads, u # v
                PROVE  /\ Busy(u)' /\ Busy(v)' => Cur(u)' # Cur(v)'
                       /\ cb_fiber'[u] # NoJob => cb_fiber'[u] # cb_fiber'[v]
                       /\ \A j \in Jobs : Answers(u, j)' => ~Answers(v, j)'
    BY DEF Separate
  <2>1. CASE u # t /\ v # t
    BY <1>1, <2>1 DEF Inv, Separate
  <2>2. CASE u = t
    BY <1>1, <2>2
  <2>3. CASE v = t
    BY <1>1, <2>3
  <2>. QED
    BY <2>1, <2>2, <2>3
<1>4. Represented'
  <2>1. ASSUME NEW j \in Listed', NEW u \in Threads PROVE Ready(j)' /\ ~Answers(u, j)'
    <3>1. j \in Jobs
      OBVIOUS
    <3>2. CASE j \in Listed /\ j # y /\ (j \in UserFibers => j # x)
      <4>1. Ready(j) /\ ~Answers(u, j)
        BY <3>2 DEF Inv, Represented
      <4>2. Ready(j)'
        BY <3>1, <3>2, <4>1 DEF Ready
      <4>. QED
        BY <1>1, <3>1, <4>1, <4>2
    <3>3. CASE Ready(j)' /\ \A v \in Threads \ {t} : ~Answers(v, j)
      BY <1>1, <3>1, <3>3
    <3>. QED
      BY <3>2, <3>3
  <2>2. ASSUME NEW j \in Jobs, status'[j] \in {"submitted", "begun"}
        PROVE  j \in Listed' \/ \E u \in Threads : Answers(u, j)'
    <3>1. CASE status[j] \in {"submitted", "begun"} /\ j \notin Listed /\ ~Answers(t, j)
      <4>1. PICK u \in Threads : Answers(u, j)
        BY <3>1 DEF Inv, Represented
      <4>. QED
        BY <1>1, <3>1, <4>1
    <3>. QED
      BY <2>2, <3>1
  <2>3. ASSUME NEW j \in UserFibers, status'[j] = "fresh" PROVE fib'[j] = NewFiber(j)
    <3>1. j \in Jobs /\ status[j] = "fresh"
      BY <2>3 DEF Jobs
    <3>. QED
      BY <3>1 DEF Inv, Represented
  <2>. QED
    BY <2>1, <2>2, <2>3 DEF Represented, NewFiber
<1>. QED
  BY <1>2, <1>3, <1>4 DEF Inv

-----------------------------------------------------------------------------
(* The steps of run() *)

\* A step that changes neither the list nor a fiber nor a function, and what t
\* answers for neither.
LEMMA LocalStep ==
    ASSUME Inv, TypeOK', Dispatched', NEW t \in Threads,
           \A u \in Threads \ {t} :
               pc'[u] = pc[u] /\ ft'[u] = ft[u] /\ cb_fiber'[u] = cb_fiber[u],
           UNCHANGED <<fib, m_fibers, status, waiters, crash, caller>>,
           Taken(t)', Dispatch(t)', CbFiberOK(t)',
           \A u \in Threads \ {t} : Busy(t)' /\ Busy(u) => Cur(t)' # Cur(u),
           cb_fiber'[t] \in {cb_fiber[t], NoJob},
           \A j \in Jobs : Answers(t, j)' <=> Answers(t, j)
    PROVE  Inv'
<1>. USE SchedulerAssumption
<1>1. NoJob \notin Jobs
  BY DEF Jobs
<1>2. Spares(t, NoJob, NoJob)
  BY <1>1 DEF Spares
<1>3. ListOK' /\ Listed' = Listed /\ Listed \subseteq Jobs
  BY ListedJobs DEF Inv, ListOK, RightKind, Listed
<1>4. \A u \in Threads \ {t} :
          /\ Busy(t)' /\ Busy(u) => Cur(t)' # Cur(u)
          /\ cb_fiber'[t] # NoJob => cb_fiber'[t] # cb_fiber[u]
          /\ \A j \in Jobs : Answers(t, j)' => ~Answers(u, j)
  BY DEF Inv, Separate
<1>5. \A j \in Listed' : j \in Jobs /\ ~Answers(t, j)' /\ j # NoJob
  BY <1>1, <1>3 DEF Inv, Represented
<1>6. NoJob \notin UserFibers
  OBVIOUS
<1>. QED
  BY <1>2, <1>3, <1>4, <1>5, <1>6, StepKeeps

LEMMA FindNothingInv ==
    ASSUME Inv, TypeOK', Dispatched', NEW t \in Threads, FindNothing(t) PROVE Inv'
<1>1. /\ pc[t] = "scan" /\ pc'[t] = "none"
      /\ \A u \in Threads \ {t} : pc'[u] = pc[u]
      /\ UNCHANGED <<fib, m_fibers, status, waiters, crash, caller, ft, cb_fiber>>
  BY DEF FindNothing, Goto, shared, owner, history, Inv, TypeOK
<1>2. ~Busy(t) /\ ~Busy(t)' /\ \A j \in Jobs : ~Answers(t, j) /\ ~Answers(t, j)'
  BY <1>1 DEF Busy, Active, Answers
<1>3. Taken(t)' /\ Dispatch(t)'
  BY <1>1, <1>2 DEF Inv, Taken, Dispatch
<1>4. CbFiberOK(t)'
  BY <1>1, <1>2, SchedulerAssumption DEF Inv, CbFiberOK, Jobs
<1>. QED
  BY <1>1, <1>2, <1>3, <1>4, LocalStep

LEMMA IdleInv ==
    ASSUME Inv, TypeOK', Dispatched', NEW t \in Threads, Idle(t) \/ Exit(t) PROVE Inv'
<1>1. /\ pc[t] = "none" /\ pc'[t] \in {"scan", "exited"}
      /\ \A u \in Threads \ {t} : pc'[u] = pc[u] /\ cb_fiber'[u] = cb_fiber[u]
      /\ cb_fiber'[t] \in {cb_fiber[t], NoJob}
      /\ UNCHANGED <<fib, m_fibers, status, waiters, crash, caller, ft>>
  BY DEF Idle, Exit, Goto, shared, owner, history, Inv, TypeOK
<1>2. ~Busy(t) /\ ~Busy(t)' /\ \A j \in Jobs : ~Answers(t, j) /\ ~Answers(t, j)'
  BY <1>1 DEF Busy, Active, Answers
<1>3. Taken(t)' /\ Dispatch(t)'
  BY <1>1, <1>2 DEF Inv, Taken, Dispatch
<1>4. CbFiberOK(t)'
  BY <1>1, <1>2, SchedulerAssumption DEF Inv, CbFiberOK, Jobs
<1>. QED
  BY <1>1, <1>2, <1>3, <1>4, LocalStep

LEMMA DispatchFiberInv ==
    ASSUME Inv, TypeOK', Dispatched', NEW t \in Threads, DispatchFiber(t) PROVE Inv'
<1>. USE SchedulerAssumption
<1>1. /\ pc[t] = "got" /\ ft[t].kind = "fiber"
      /\ ft[t].id \in UserFibers /\ Ready(ft[t].id) /\ ft[t].id \in Jobs
  BY DEF DispatchFiber, Inv, Taken, RightKind, Jobs
<1>2. /\ pc'[t] = "swapIn"
      /\ \A u \in Threads \ {t} : pc'[u] = pc[u]
      /\ UNCHANGED <<fib, m_fibers, status, waiters, crash, caller, ft, cb_fiber>>
  BY <1>1 DEF DispatchFiber, Ready, Goto, owner, history, Inv, TypeOK
<1>3. ~Busy(t) /\ Busy(t)' /\ Cur(t)' = ft[t].id
  BY <1>1, <1>2 DEF Busy, Active, Cur
<1>4. \A u \in Threads \ {t} : Busy(u) => Cur(u) # ft[t].id
  BY <1>1, CurPrivate
<1>5. \A j \in Jobs : Answers(t, j)' <=> Answers(t, j)
  BY <1>1, <1>2, <1>3 DEF Answers, Ready
<1>6. Taken(t)'
  BY <1>1, <1>2 DEF Taken, Ready, Busy, Active
<1>7. Dispatch(t)'
  BY <1>1, <1>2, <1>3 DEF Dispatch, Ready, Enterable, OwnJob
<1>8. CbFiberOK(t)'
  BY <1>1, <1>2, <1>3, <1>5 DEF Inv, CbFiberOK, Jobs
<1>. QED
  BY <1>1, <1>2, <1>3, <1>4, <1>5, <1>6, <1>7, <1>8, LocalStep

\* The scan: the entry of a function becomes the thread that answers for it.
LEMMA TakeTaskInv ==
    ASSUME Inv, TypeOK', Dispatched', NEW t \in Threads, TakeTask(t) PROVE Inv'
<1>. USE SchedulerAssumption
<1>0. PICK i \in DOMAIN m_fibers :
          ft' = [ft EXCEPT ![t] = m_fibers[i]] /\ m_fibers' = RemoveAt(m_fibers, i)
  BY DEF TakeTask, Erase
<1>1. /\ pc[t] = "scan" /\ pc'[t] = "got" /\ ft'[t] = m_fibers[i]
      /\ \A u \in Threads \ {t} : pc'[u] = pc[u] /\ ft'[u] = ft[u]
      /\ UNCHANGED <<fib, status, waiters, crash, caller, cb_fiber>>
  BY <1>0 DEF TakeTask, Goto, owner, history, Inv, TypeOK
<1>2. ListOK' /\ Listed' = Listed \ {m_fibers[i].id}
  BY <1>0, RemoveList DEF Inv
<1>3. PICK k : k = m_fibers[i].id
  OBVIOUS
<1>4. k \in Listed /\ k \in Jobs /\ Ready(k) /\ RightKind(m_fibers[i])
  BY <1>3, ListedJobs DEF Listed, Inv, Represented, ListOK
<1>5. ~Busy(t) /\ ~Busy(t)' /\ \A j \in Jobs : ~Answers(t, j) /\ (Answers(t, j)' <=> j = k)
  BY <1>1, <1>3 DEF Busy, Active, Answers
<1>6. Taken(t)' /\ Dispatch(t)'
  <2>1. Ready(k)'
    BY <1>1, <1>4 DEF Ready
  <2>. QED
    BY <1>1, <1>3, <1>4, <1>5, <2>1 DEF Taken, Dispatch, RightKind
<1>7. CbFiberOK(t)'
  BY <1>1, <1>5 DEF Inv, CbFiberOK, Jobs
<1>8. NoJob \notin Jobs /\ NoJob \notin UserFibers
  BY DEF Jobs
<1>9. Spares(t, NoJob, NoJob)
  BY <1>1, <1>8 DEF Spares
<1>10. \A u \in Threads \ {t} :
           /\ Busy(t)' /\ Busy(u) => Cur(t)' # Cur(u)
           /\ cb_fiber'[t] # NoJob => cb_fiber'[t] # cb_fiber[u]
           /\ \A j \in Jobs : Answers(t, j)' => ~Answers(u, j)
  BY <1>1, <1>4, <1>5 DEF Inv, Separate, Represented
<1>11. \A j \in Listed' : j \in Jobs /\ ~Answers(t, j)' /\ j \in Listed /\ j # NoJob
  BY <1>2, <1>3, <1>5, <1>8, ListedJobs DEF Inv
<1>12. \A j \in Jobs : status'[j] \in {"submitted", "begun"} =>
           \/ j \in Listed' \/ Answers(t, j)'
           \/ /\ status[j] \in {"submitted", "begun"}
              /\ j \notin Listed /\ ~Answers(t, j)
  BY <1>1, <1>2, <1>3, <1>5
<1>. QED
  BY <1>1, <1>2, <1>6, <1>7, <1>8, <1>9, <1>10, <1>11, <1>12, StepKeeps

\* A function somebody answers for was scheduled and has not finished.
LEMMA AnswersPending ==
    ASSUME Inv, NEW t \in Threads, NEW j \in Jobs, Answers(t, j)
    PROVE  status[j] \in {"submitted", "begun"}
<1>. USE SchedulerAssumption
<1>1. CASE pc[t] = "got" /\ ft[t].id = j
  BY <1>1 DEF Inv, Taken, Ready, Jobs
<1>2. CASE pc[t] \in {"swapIn", "user", "yielded"} /\ fib[Cur(t)].job = j
  BY <1>2 DEF Inv, Dispatch, Enterable
<1>3. CASE pc[t] = "after" /\ fib[Cur(t)].state = "READY" /\ fib[Cur(t)].job = j
  BY <1>3 DEF Inv, Dispatch, Enterable, Ended
<1>. QED
  BY <1>1, <1>2, <1>3 DEF Answers

\* A step on the fiber that t is on, which may take the function it runs one
\* status further.
LEMMA FiberStep ==
    ASSUME Inv, TypeOK', Dispatched', NEW t \in Threads, NEW y,
           Busy(t), Busy(t)', pc'[t] # "hold",
           \A u \in Threads \ {t} : pc'[u] = pc[u],
           \A f \in Jobs \ {Cur(t)} : fib'[f] = fib[f],
           UNCHANGED <<m_fibers, ft, cb_fiber, waiters, crash, caller>>,
           \A j \in Jobs \ {y} : status'[j] = status[j],
           y \in Jobs => Answers(t, y) /\ status'[y] \in {"begun", "finished"},
           Dispatch(t)',
           \A j \in Jobs : Answers(t, j)' => Answers(t, j),
           \A j \in Jobs : Answers(t, j) =>
               Answers(t, j)' \/ status'[j] \notin {"submitted", "begun"}
    PROVE  Inv'
<1>. USE SchedulerAssumption
<1>1. PICK x : x = Cur(t)
  OBVIOUS
<1>2. Cur(t)' = x
  BY <1>1 DEF Cur
<1>3. y \in Jobs => status[y] \in {"submitted", "begun"} /\ y \notin Listed
  BY AnswersPending DEF Inv, Represented
<1>4. Spares(t, x, y)
  <2>1. y \in Jobs => \A u \in Threads \ {t} : ~Answers(u, y)
    BY DEF Inv, Separate
  <2>. QED
    BY <1>1, <1>3, <2>1, CurPrivate DEF Spares
<1>5. x \in UserFibers => status[x] # "fresh" /\ x \notin Listed
  BY <1>1, CurPrivate
<1>6. Taken(t)'
  <2>1. Taken(t)
    BY DEF Inv
  <2>2. ft[t].id \in UserFibers /\ status[ft[t].id] # "fresh" => status'[ft[t].id] # "fresh"
    BY DEF Jobs
  <2>3. pc'[t] \notin {"off", "scan", "none", "exited", "got"}
    BY DEF Busy, Active
  <2>. QED
    BY <2>1, <2>2, <2>3 DEF Taken
<1>7. CbFiberOK(t)'
  <2>. SUFFICES ASSUME cb_fiber[t] # NoJob PROVE CbFiberOK(t)'
    BY DEF CbFiberOK
  <2>1. CbFiberOK(t) /\ cb_fiber[t] \in Cbs /\ cb_fiber[t] \in Jobs
    BY DEF Inv, CbFiberOK, Jobs
  <2>2. ft[t].kind = "fiber" => fib'[cb_fiber[t]] = fib[cb_fiber[t]]
    BY <2>1 DEF Cur, Inv, Taken, NoTask
  <2>. QED
    BY <2>1, <2>2 DEF CbFiberOK
<1>8. ListOK' /\ Listed' = Listed /\ Listed \subseteq Jobs
  BY ListedJobs DEF Inv, ListOK, RightKind, Listed
<1>9. \A u \in Threads \ {t} :
          /\ Busy(t)' /\ Busy(u) => Cur(t)' # Cur(u)
          /\ cb_fiber'[t] # NoJob => cb_fiber'[t] # cb_fiber[u]
          /\ \A j \in Jobs : Answers(t, j)' => ~Answers(u, j)
  BY <1>1, <1>2 DEF Inv, Separate
<1>10. \A j \in Listed' :
           j \in Jobs /\ ~Answers(t, j)' /\ j \in Listed /\ j # y /\ (j \in UserFibers => j # x)
  BY <1>3, <1>5, <1>8 DEF Inv, Represented
<1>11. \A j \in Jobs : status'[j] \in {"submitted", "begun"} =>
           \/ j \in Listed' \/ Answers(t, j)'
           \/ /\ status[j] \in {"submitted", "begun"}
              /\ j \notin Listed /\ ~Answers(t, j)
  BY <1>3, <1>8
<1>. QED
  BY <1>4, <1>5, <1>6, <1>7, <1>8, <1>9, <1>10, <1>11, StepKeeps

\* swapIn: what it finds never fails one of its assertions.
LEMMA ResumeInv ==
    ASSUME Inv, TypeOK', Dispatched', NEW t \in Threads, Resume(t), crash = "none"
    PROVE  Inv' /\ crash' = "none"
<1>. USE SchedulerAssumption
<1>1. PICK x : x = Cur(t)
  OBVIOUS
<1>2. PICK y : y = IF fib[x].ctx = "fresh" THEN fib[x].job ELSE NoJob
  OBVIOUS
<1>3. /\ pc[t] = "swapIn" /\ Busy(t) /\ x \in Jobs
      /\ Enterable(t, fib[x]) /\ OwnJob(t, fib[x])
  BY <1>1 DEF Resume, Busy, Active, Inv, Dispatched, Dispatch
<1>4. SwapInFault(fib[x]) = "none"
  BY <1>3 DEF Enterable, SwapInFault
<1>5. /\ fib' = [fib EXCEPT ![x] = SwapIn(@)]
      /\ pc' = [pc EXCEPT ![t] = "user"]
      /\ status' = IF fib[x].ctx = "fresh" THEN [status EXCEPT ![fib[x].job] = "begun"] ELSE status
      /\ crash' = "none"
      /\ UNCHANGED <<m_fibers, ft, cb_fiber, waiters, caller>>
  BY <1>1, <1>4 DEF Resume, Goto, owner
<1>6. /\ pc'[t] = "user" /\ \A u \in Threads \ {t} : pc'[u] = pc[u]
      /\ \A f \in Jobs \ {x} : fib'[f] = fib[f]
      /\ fib'[x].state = "EXEC" /\ fib'[x].ctx = "live" /\ fib'[x].job = fib[x].job
  BY <1>3, <1>5 DEF SwapIn, Inv, TypeOK, FiberType
<1>7. /\ \A j \in Jobs \ {y} : status'[j] = status[j]
      /\ y \in Jobs => y = fib[x].job /\ status'[y] = "begun"
      /\ status'[fib[x].job] = "begun"
  BY <1>2, <1>3, <1>5 DEF Enterable, Inv, TypeOK, Jobs
<1>8. Busy(t)' /\ Cur(t)' = x
  BY <1>1, <1>5, <1>6 DEF Busy, Active, Cur
<1>9. \A j \in Jobs : Answers(t, j)' <=> Answers(t, j)
  BY <1>1, <1>3, <1>6, <1>8 DEF Answers
<1>10. y \in Jobs => Answers(t, y)
  BY <1>1, <1>3, <1>7 DEF Answers
<1>11. Dispatch(t)'
  BY <1>3, <1>5, <1>6, <1>7, <1>8 DEF Dispatch, Enterable, OwnJob
<1>12. UNCHANGED crash
  BY <1>5
<1>. QED
  BY <1>1, <1>3, <1>5, <1>6, <1>7, <1>8, <1>9, <1>10, <1>11, <1>12, FiberStep

LEMMA YieldToReadyInv ==
    ASSUME NoHolds, Inv, TypeOK', Dispatched', NEW t \in Threads, YieldToReady(t)
    PROVE  Inv'
<1>. USE SchedulerAssumption
<1>1. PICK x : x = Cur(t)
  OBVIOUS
<1>2. /\ pc[t] = "user" /\ Busy(t) /\ x \in Jobs
      /\ fib[x].state = "EXEC" /\ fib[x].ctx = "live" /\ fib[x].job \in Jobs
      /\ status[fib[x].job] = "begun" /\ OwnJob(t, fib[x])
  BY <1>1 DEF YieldToReady, Busy, Active, Inv, Dispatched, Dispatch
<1>3. ft[t].kind = "fiber"
  BY <1>1, <1>2 DEF YieldToReady, NoHolds, OpsOf, OwnJob
<1>4. /\ fib' = [fib EXCEPT ![x] = SetState(@, "READY")]
      /\ pc' = [pc EXCEPT ![t] = "yielded"]
      /\ UNCHANGED <<m_fibers, ft, cb_fiber, waiters, caller, crash, status>>
  BY <1>1 DEF YieldToReady, Goto, owner
<1>5. /\ pc'[t] = "yielded" /\ \A u \in Threads \ {t} : pc'[u] = pc[u]
      /\ \A f \in Jobs \ {x} : fib'[f] = fib[f]
      /\ fib'[x].state = "READY" /\ fib'[x].job = fib[x].job
  BY <1>2, <1>4 DEF SetState, Inv, TypeOK, FiberType
<1>6. Busy(t)' /\ Cur(t)' = x
  BY <1>1, <1>4, <1>5 DEF Busy, Active, Cur
<1>7. \A j \in Jobs : Answers(t, j)' <=> Answers(t, j)
  BY <1>1, <1>2, <1>5, <1>6 DEF Answers
<1>8. Dispatch(t)'
  BY <1>2, <1>3, <1>4, <1>5, <1>6 DEF Dispatch, OwnJob
<1>9. NoJob \notin Jobs
  BY DEF Jobs
<1>. QED
  BY <1>1, <1>2, <1>4, <1>5, <1>6, <1>7, <1>8, <1>9, FiberStep

LEMMA FinishInv ==
    ASSUME Inv, TypeOK', Dispatched', NEW t \in Threads, NEW throws \in BOOLEAN,
           Finish(t, throws)
    PROVE  Inv'
<1>. USE SchedulerAssumption
<1>1. PICK x : x = Cur(t)
  OBVIOUS
<1>2. PICK y : y = fib[x].job
  OBVIOUS
<1>3. /\ pc[t] = "user" /\ Busy(t) /\ x \in Jobs
      /\ y \in Jobs /\ status[y] = "begun" /\ fib[x] \in FiberType(Jobs \cup {NoJob})
  BY <1>1, <1>2 DEF Finish, Busy, Active, Inv, Dispatched, Dispatch, TypeOK
<1>4. /\ fib' = [fib EXCEPT ![x] = MainFuncEnds(@, throws, NoJob)]
      /\ pc' = [pc EXCEPT ![t] = "ended"]
      /\ status' = [status EXCEPT ![y] = "finished"]
      /\ UNCHANGED <<m_fibers, ft, cb_fiber, waiters, caller, crash>>
  BY <1>1, <1>2 DEF Finish, Goto, owner
<1>5. /\ pc'[t] = "ended" /\ \A u \in Threads \ {t} : pc'[u] = pc[u]
      /\ \A f \in Jobs \ {x} : fib'[f] = fib[f]
      /\ status'[y] = "finished" /\ \A j \in Jobs \ {y} : status'[j] = status[j]
  BY <1>3, <1>4 DEF Inv, TypeOK
<1>6. fib'[x].state \in {"TERM", "EXCPT"} /\ fib'[x].job \in {y, NoJob}
  <2>1. fib'[x] = MainFuncEnds(fib[x], throws, NoJob)
    BY <1>3, <1>4 DEF Inv, TypeOK
  <2>. QED
    BY <1>2, <1>3, <2>1 DEF MainFuncEnds, FiberType
<1>7. Busy(t)' /\ Cur(t)' = x
  BY <1>1, <1>4, <1>5 DEF Busy, Active, Cur
<1>8. Answers(t, y) /\ \A j \in Jobs : ~Answers(t, j)' /\ (Answers(t, j) => j = y)
  BY <1>1, <1>2, <1>3, <1>5 DEF Answers
<1>9. Dispatch(t)'
  <2>1. fib'[x].job \in Jobs => status'[fib'[x].job] = "finished"
    BY <1>5, <1>6 DEF Jobs
  <2>. QED
    BY <1>5, <1>6, <1>7, <2>1 DEF Dispatch, Ended
<1>. QED
  BY <1>1, <1>3, <1>4, <1>5, <1>7, <1>8, <1>9, FiberStep

LEMMA LeaveInv ==
    ASSUME Inv, TypeOK', Dispatched', NEW t \in Threads, Leave(t)
    PROVE  Inv'
<1>. USE SchedulerAssumption
<1>1. PICK x : x = Cur(t)
  OBVIOUS
<1>2. /\ pc[t] \in {"yielded", "ended"} /\ Busy(t) /\ x \in Jobs
      /\ fib[x] \in FiberType(Jobs \cup {NoJob})
  BY <1>1 DEF Leave, Busy, Active, Inv, Dispatched, Dispatch, TypeOK
<1>3. /\ fib' = [fib EXCEPT ![x] = SwapOut(@, pc[t] = "ended")]
      /\ pc' = [pc EXCEPT ![t] = "after"]
      /\ UNCHANGED <<m_fibers, ft, cb_fiber, waiters, caller, crash, status>>
  BY <1>1 DEF Leave, Goto, owner, history
<1>4. /\ pc'[t] = "after" /\ \A u \in Threads \ {t} : pc'[u] = pc[u]
      /\ \A f \in Jobs \ {x} : fib'[f] = fib[f]
  BY <1>2, <1>3 DEF Inv, TypeOK
<1>5. /\ fib'[x].state = fib[x].state /\ fib'[x].job = fib[x].job
      /\ pc[t] = "yielded" => fib'[x].ctx = "saved"
  <2>1. fib'[x] = SwapOut(fib[x], pc[t] = "ended")
    BY <1>2, <1>3 DEF Inv, TypeOK
  <2>. QED
    BY <1>2, <2>1 DEF SwapOut, FiberType
<1>6. Busy(t)' /\ Cur(t)' = x
  BY <1>1, <1>3, <1>4 DEF Busy, Active, Cur
<1>7. Dispatch(t)
  BY DEF Inv
<1>8. \A j \in Jobs : Answers(t, j)' <=> Answers(t, j)
  BY <1>1, <1>2, <1>4, <1>5, <1>6, <1>7 DEF Answers, Dispatch, Ended
<1>9. Dispatch(t)'
  BY <1>1, <1>2, <1>3, <1>4, <1>5, <1>6, <1>7 DEF Dispatch, Ended, Enterable, OwnJob
<1>10. NoJob \notin Jobs
  BY DEF Jobs
<1>. QED
  BY <1>1, <1>2, <1>3, <1>4, <1>6, <1>8, <1>9, <1>10, FiberStep

\* A callback is put into a fiber of t alone, so reset's assertion holds.
LEMMA DispatchCbInv ==
    ASSUME Inv, TypeOK', Dispatched', NEW t \in Threads, DispatchCb(t), crash = "none"
    PROVE  Inv' /\ crash' = "none"
<1>. USE SchedulerAssumption
<1>1. PICK j : j = ft[t].id
  OBVIOUS
<1>2. PICK x : x = IF cb_fiber[t] = NoJob THEN j ELSE cb_fiber[t]
  OBVIOUS
<1>3. /\ pc[t] = "got" /\ ft[t].kind = "cb" /\ j \in Jobs /\ j \in Cbs /\ ~Busy(t)
      /\ status[j] = "submitted" /\ Answers(t, j) /\ j \notin Listed
      /\ \A i \in Jobs : Answers(t, i) => i = j
  <2>1. pc[t] = "got" /\ ft[t].kind = "cb" /\ j \in Jobs /\ RightKind(ft[t]) /\ Ready(j)
    BY <1>1 DEF DispatchCb, Inv, Taken
  <2>. QED
    BY <1>1, <2>1 DEF RightKind, Ready, Busy, Active, Answers, Inv, Represented
<1>4. /\ x \in Cbs /\ x \in Jobs /\ x # NoJob
      /\ cb_fiber[t] # NoJob => CanReset(fib[x])
      /\ status[x] \in {"begun", "finished"} \/ x = j
  BY <1>2, <1>3 DEF Inv, CbFiberOK, CanReset, Jobs
<1>5. /\ fib' = [fib EXCEPT ![x] = IF cb_fiber[t] = NoJob THEN NewFiber(j) ELSE Reset(@, j)]
      /\ cb_fiber' = [cb_fiber EXCEPT ![t] = x]
      /\ ft' = [ft EXCEPT ![t] = NoTask]
      /\ pc' = [pc EXCEPT ![t] = "swapIn"]
      /\ crash' = "none"
      /\ UNCHANGED <<m_fibers, waiters, caller, status>>
  BY <1>1, <1>2, <1>4 DEF DispatchCb, Goto, owner
<1>6. /\ pc'[t] = "swapIn" /\ ft'[t] = NoTask /\ cb_fiber'[t] = x
      /\ \A u \in Threads \ {t} : pc'[u] = pc[u] /\ ft'[u] = ft[u] /\ cb_fiber'[u] = cb_fiber[u]
      /\ \A f \in Jobs \ {x} : fib'[f] = fib[f]
  BY <1>4, <1>5 DEF Inv, TypeOK
<1>7. fib'[x].state = "INIT" /\ fib'[x].ctx = "fresh" /\ fib'[x].job = j
  <2>1. fib'[x] = (IF cb_fiber[t] = NoJob THEN NewFiber(j) ELSE Reset(fib[x], j))
        /\ fib[x] \in FiberType(Jobs \cup {NoJob})
    BY <1>4, <1>5 DEF Inv, TypeOK
  <2>. QED
    BY <2>1 DEF NewFiber, Reset, FiberType
<1>8. \A u \in Threads \ {t} : cb_fiber[u] # x /\ (Busy(u) => Cur(u) # x)
  <2>. SUFFICES ASSUME NEW u \in Threads \ {t}
                PROVE  cb_fiber[u] # x /\ (Busy(u) => Cur(u) # x)
    OBVIOUS
  <2>1. cb_fiber[u] # x
    <3>1. CASE cb_fiber[t] = NoJob
      BY <1>2, <1>3, <3>1 DEF Inv, CbFiberOK, Separate
    <3>2. CASE cb_fiber[t] # NoJob
      BY <1>2, <3>2 DEF Inv, Separate
    <3>. QED
      BY <3>1, <3>2
  <2>2. ASSUME Busy(u), Cur(u) = x PROVE FALSE
    BY <1>4, <2>1, <2>2 DEF Cur, Inv, Taken, NoTask
  <2>. QED
    BY <2>1, <2>2
<1>9. Spares(t, x, NoJob) /\ x \notin UserFibers
  <2>1. NoJob \notin Jobs
    BY DEF Jobs
  <2>. QED
    BY <1>4, <1>5, <1>6, <1>8, <2>1 DEF Spares
<1>10. Busy(t)' /\ Cur(t)' = x /\ ft'[t].kind # "fiber"
  BY <1>6 DEF Busy, Active, Cur, NoTask
<1>11. \A i \in Jobs : Answers(t, i)' <=> i = j
  BY <1>6, <1>7, <1>10 DEF Answers
<1>12. Taken(t)' /\ Dispatch(t)'
  <2>1. Taken(t)'
    BY <1>4, <1>6, <1>10 DEF Taken, Busy, Active
  <2>2. Dispatch(t)'
    BY <1>3, <1>5, <1>6, <1>7, <1>10 DEF Dispatch, Enterable, OwnJob
  <2>. QED
    BY <2>1, <2>2
<1>13. CbFiberOK(t)'
  BY <1>3, <1>4, <1>5, <1>6, <1>10, <1>11 DEF CbFiberOK
<1>14. ListOK' /\ Listed' = Listed /\ Listed \subseteq Jobs
  BY <1>5, ListedJobs DEF Inv, ListOK, RightKind, Listed
<1>15. \A u \in Threads \ {t} :
           /\ Busy(t)' /\ Busy(u) => Cur(t)' # Cur(u)
           /\ cb_fiber'[t] # NoJob => cb_fiber'[t] # cb_fiber[u]
           /\ \A i \in Jobs : Answers(t, i)' => ~Answers(u, i)
  BY <1>3, <1>6, <1>8, <1>10, <1>11 DEF Inv, Separate
<1>16. \A i \in Listed' : i \in Jobs /\ ~Answers(t, i)' /\ i \in Listed /\ i # NoJob
                          /\ (i \in UserFibers => i # x)
  BY <1>3, <1>9, <1>11, <1>14 DEF Jobs
<1>17. \A i \in Jobs : status'[i] \in {"submitted", "begun"} =>
           \/ i \in Listed' \/ Answers(t, i)'
           \/ /\ status[i] \in {"submitted", "begun"}
              /\ i \notin Listed /\ ~Answers(t, i)
  BY <1>3, <1>5, <1>11, <1>14
<1>18. UNCHANGED crash
  BY <1>5
<1>. QED
  BY <1>5, <1>9, <1>12, <1>13, <1>14, <1>15, <1>16, <1>17, <1>18, StepKeeps

\* Back from a Fiber::ptr: a READY fiber passes from the thread to the list.
LEMMA AfterFiberInv ==
    ASSUME Inv, TypeOK', Dispatched', NEW t \in Threads, AfterFiber(t)
    PROVE  Inv'
<1>. USE SchedulerAssumption
<1>1. PICK k : k = ft[t].id
  OBVIOUS
<1>2. /\ pc[t] = "after" /\ ft[t].kind = "fiber" /\ Busy(t) /\ Cur(t) = k
      /\ k \in UserFibers /\ k \in Jobs /\ k \notin Listed
      /\ \/ Ended(fib[k])
         \/ Enterable(t, fib[k]) /\ OwnJob(t, fib[k]) /\ fib[k].state = "READY"
  <2>1. pc[t] = "after" /\ ft[t].kind = "fiber" /\ Busy(t) /\ Cur(t) = k
    BY <1>1 DEF AfterFiber, Busy, Cur
  <2>2. k \in UserFibers /\ k \in Jobs
    BY <1>1, <2>1 DEF Inv, Taken, NoTask, Jobs
  <2>3. k \notin Listed
    BY <2>1, <2>2, CurPrivate
  <2>4. \/ Ended(fib[Cur(t)])
        \/ Enterable(t, fib[Cur(t)]) /\ OwnJob(t, fib[Cur(t)]) /\ fib[Cur(t)].state = "READY"
    BY <2>1 DEF Inv, Dispatch
  <2>. QED
    BY <2>1, <2>2, <2>3, <2>4
<1>3. /\ ft' = [ft EXCEPT ![t] = NoTask]
      /\ pc' = [pc EXCEPT ![t] = "scan"]
      /\ IF fib[k].state = "READY" THEN m_fibers' = Append(m_fibers, FiberEntry(k))
                                   ELSE UNCHANGED m_fibers
      /\ UNCHANGED <<fib, cb_fiber, waiters, crash, caller, status>>
  BY <1>1, <1>2 DEF AfterFiber, Goto, owner, history, Schedule, KeepsState, Ended
<1>4. /\ pc'[t] = "scan" /\ ft'[t] = NoTask
      /\ \A u \in Threads \ {t} : pc'[u] = pc[u] /\ ft'[u] = ft[u]
  BY <1>3 DEF Inv, TypeOK
<1>5. ListOK' /\ Listed' = IF fib[k].state = "READY" THEN Listed \cup {k} ELSE Listed
  <2>1. CASE fib[k].state = "READY"
    <3>1. FiberEntry(k) \in Fiber_and_Thread /\ FiberEntry(k).id = k /\ RightKind(FiberEntry(k))
      BY <1>2 DEF FiberEntry, Fiber_and_Thread, RightKind
    <3>2. m_fibers' = Append(m_fibers, FiberEntry(k))
      BY <1>3, <2>1
    <3>3. PICK e \in Fiber_and_Thread : e = FiberEntry(k)
      BY <3>1
    <3>4. ListOK' /\ Listed' = Listed \cup {e.id}
      BY <1>2, <3>1, <3>2, <3>3, AppendList DEF Inv
    <3>. QED
      BY <2>1, <3>1, <3>3, <3>4
  <2>2. CASE fib[k].state # "READY"
    BY <1>3, <2>2 DEF Inv, ListOK, RightKind, Listed
  <2>. QED
    BY <2>1, <2>2
<1>6. ~Busy(t)' /\ \A j \in Jobs : ~Answers(t, j)'
  BY <1>4 DEF Busy, Active, Answers
<1>7. \A j \in Jobs : Answers(t, j) <=> fib[k].state = "READY" /\ j = k
  BY <1>1, <1>2 DEF Answers, OwnJob, Ended
<1>8. fib[k].state = "READY" => Ready(k)'
  BY <1>1, <1>2, <1>3 DEF Ready, Enterable, OwnJob, Ended
<1>9. Taken(t)' /\ Dispatch(t)'
  BY <1>4, <1>6 DEF Taken, Dispatch
<1>10. CbFiberOK(t)'
  BY <1>2, <1>3, <1>7 DEF Inv, CbFiberOK, Jobs
<1>11. NoJob \notin Jobs
  BY DEF Jobs
<1>12. Spares(t, NoJob, NoJob)
  BY <1>3, <1>4, <1>11 DEF Spares
<1>13. \A u \in Threads \ {t} :
           /\ Busy(t)' /\ Busy(u) => Cur(t)' # Cur(u)
           /\ cb_fiber'[t] # NoJob => cb_fiber'[t] # cb_fiber[u]
           /\ \A j \in Jobs : Answers(t, j)' => ~Answers(u, j)
  BY <1>3, <1>6 DEF Inv, Separate
<1>14. \A j \in Listed' :
           /\ j \in Jobs
           /\ ~Answers(t, j)'
           /\ \/ j \in Listed /\ j # NoJob /\ (j \in UserFibers => j # NoJob)
              \/ Ready(j)' /\ \A u \in Threads \ {t} : ~Answers(u, j)
  <2>1. fib[k].state = "READY" => \A u \in Threads \ {t} : ~Answers(u, k)
    BY <1>2, <1>7 DEF Inv, Separate
  <2>2. Listed \subseteq Jobs
    BY ListedJobs DEF Inv
  <2>. QED
    BY <1>2, <1>5, <1>6, <1>8, <1>11, <2>1, <2>2
<1>15. \A j \in Jobs : status'[j] \in {"submitted", "begun"} =>
           \/ j \in Listed' \/ Answers(t, j)'
           \/ /\ status[j] \in {"submitted", "begun"}
              /\ j \notin Listed /\ ~Answers(t, j)
  BY <1>3, <1>5, <1>7
<1>. QED
  BY <1>3, <1>5, <1>9, <1>10, <1>11, <1>12, <1>13, <1>14, <1>15, StepKeeps

\* Back from a callback: it has ended, and its fiber is reset.
LEMMA AfterCbInv ==
    ASSUME Inv, TypeOK', Dispatched', NEW t \in Threads, AfterCb(t)
    PROVE  Inv'
<1>. USE SchedulerAssumption
<1>1. PICK x : x = cb_fiber[t]
  OBVIOUS
<1>2. /\ pc[t] = "after" /\ ft[t] = NoTask /\ Busy(t) /\ Cur(t) = x
      /\ x \in Cbs /\ x \in Jobs /\ x # NoJob /\ Ended(fib[x])
  <2>1. pc[t] = "after" /\ ft[t].kind # "fiber" /\ Busy(t) /\ Cur(t) = x
    BY <1>1 DEF AfterCb, Busy, Cur
  <2>2. x # NoJob /\ x \in Cbs /\ ft[t] = NoTask
    BY <1>1, <2>1 DEF Inv, Taken, CbFiberOK
  <2>3. Ended(fib[x])
    BY <2>1 DEF Inv, Dispatch, Enterable
  <2>. QED
    BY <2>1, <2>2, <2>3 DEF Jobs
<1>3. PICK s : s = fib[x].state
  OBVIOUS
<1>4. s \in {"TERM", "EXCPT"} /\ s # "READY"
  BY <1>2, <1>3 DEF Ended
<1>5. /\ fib' = [fib EXCEPT ![x] = CASE s = "READY" -> @
                                     [] s \in {"TERM", "EXCPT"} -> Reset(@, NoJob)
                                     [] OTHER -> SetState(@, "HOLD")]
      /\ pc' = [pc EXCEPT ![t] = "scan"]
      /\ UNCHANGED <<m_fibers, cb_fiber, ft, waiters, crash, caller, status>>
  <2>1. /\ fib' = [fib EXCEPT ![x] = CASE s = "READY" -> @
                                       [] s \in {"TERM", "EXCPT"} -> Reset(@, NoJob)
                                       [] OTHER -> SetState(@, "HOLD")]
        /\ IF s = "READY" THEN Schedule(FiberEntry(x)) ELSE UNCHANGED m_fibers
        /\ cb_fiber' = IF KeepsCbFiber(s) THEN cb_fiber
                       ELSE [cb_fiber EXCEPT ![t] = NoJob]
    BY <1>1, <1>3, Zenon DEF AfterCb
  <2>2. /\ pc' = [pc EXCEPT ![t] = "scan"]
        /\ UNCHANGED <<ft, waiters, crash, caller, status>>
    BY Zenon DEF AfterCb, Goto, owner, history
  <2>3. KeepsCbFiber(s)
    BY <1>4 DEF KeepsCbFiber
  <2>. QED
    BY <1>4, <2>1, <2>2, <2>3, Zenon
<1>6. fib' = [fib EXCEPT ![x] = Reset(@, NoJob)]
  <2>1. (CASE s = "READY" -> fib[x]
           [] s \in {"TERM", "EXCPT"} -> Reset(fib[x], NoJob)
           [] OTHER -> SetState(fib[x], "HOLD")) = Reset(fib[x], NoJob)
    BY <1>4, Zenon
  <2>. QED
    BY <1>5, <2>1, Zenon
<1>7. /\ pc'[t] = "scan"
      /\ \A u \in Threads \ {t} : pc'[u] = pc[u]
      /\ \A f \in Jobs \ {x} : fib'[f] = fib[f]
      /\ fib'[x].state = "INIT"
  <2>1. fib'[x] = Reset(fib[x], NoJob) /\ fib[x] \in FiberType(Jobs \cup {NoJob})
        /\ \A f \in Jobs \ {x} : fib'[f] = fib[f]
    BY <1>2, <1>6 DEF Inv, TypeOK
  <2>2. pc' = [pc EXCEPT ![t] = "scan"] /\ pc \in [Threads -> PcValues]
    BY <1>5, Zenon DEF Inv, TypeOK
  <2>3. fib'[x].state = "INIT"
    BY <2>1 DEF FiberType, Reset
  <2>. QED
    BY <2>1, <2>2, <2>3
<1>8. ~Busy(t)' /\ \A j \in Jobs : ~Answers(t, j)' /\ ~Answers(t, j)
  BY <1>2, <1>3, <1>4, <1>7 DEF Busy, Active, Answers
<1>9. Taken(t)' /\ Dispatch(t)'
  BY <1>2, <1>5, <1>7, <1>8 DEF Taken, Dispatch
<1>10. CbFiberOK(t)'
  BY <1>1, <1>2, <1>5, <1>7, <1>8 DEF Inv, CbFiberOK
<1>11. NoJob \notin Jobs
  BY DEF Jobs
<1>12. Spares(t, x, NoJob) /\ x \notin UserFibers
  BY <1>2, <1>5, <1>7, <1>11, CurPrivate DEF Spares
<1>13. \A u \in Threads \ {t} :
           /\ Busy(t)' /\ Busy(u) => Cur(t)' # Cur(u)
           /\ cb_fiber'[t] # NoJob => cb_fiber'[t] # cb_fiber[u]
           /\ \A j \in Jobs : Answers(t, j)' => ~Answers(u, j)
  BY <1>5, <1>8 DEF Inv, Separate
<1>14. ListOK' /\ Listed' = Listed /\ Listed \subseteq Jobs
  BY <1>5, ListedJobs DEF Inv, ListOK, RightKind, Listed
<1>15. \A j \in Listed' : /\ j \in Jobs /\ ~Answers(t, j)' /\ j \in Listed /\ j # NoJob
                          /\ j \in UserFibers => j # x
  BY <1>8, <1>11, <1>12, <1>14
<1>16. \A j \in Jobs : status'[j] \in {"submitted", "begun"} =>
           \/ j \in Listed' \/ Answers(t, j)'
           \/ /\ status[j] \in {"submitted", "begun"}
              /\ j \notin Listed /\ ~Answers(t, j)
  BY <1>5, <1>8, <1>14
<1>. QED
  BY <1>5, <1>9, <1>10, <1>12, <1>13, <1>14, <1>15, <1>16, StepKeeps

-----------------------------------------------------------------------------
(* schedule, and the steps of the thread that owns the scheduler *)

\* A step that lists the functions of Y, which nobody had scheduled, and may
\* let threads that are not running enter run().
LEMMA OwnerStep ==
    ASSUME Inv, TypeOK', Dispatched', NEW Y \in SUBSET Jobs,
           UNCHANGED <<fib, ft, cb_fiber, waiters>>,
           \A u \in Threads : pc'[u] = pc[u] \/ (Gone(u) /\ pc'[u] = "scan"),
           \A j \in Y : status[j] = "fresh" /\ status'[j] = "submitted",
           \A j \in Jobs \ Y : status'[j] = status[j],
           ListOK', Listed' = Listed \cup Y,
           crash' # "none" => caller' = "root"
    PROVE  Inv'
<1>. USE SchedulerAssumption
<1>1. \A u \in Threads : /\ Cur(u)' = Cur(u)
                         /\ Busy(u)' <=> Busy(u)
                         /\ \A j \in Jobs : Answers(u, j)' <=> Answers(u, j)
  BY DEF Cur, Busy, Active, Answers, Gone
<1>2. \A j \in Jobs : status[j] # "fresh" => status'[j] = status[j]
  OBVIOUS
<1>3. ASSUME NEW j \in Jobs, Ready(j) PROVE Ready(j)' /\ status[j] # "fresh"
  BY <1>2, <1>3 DEF Ready, Jobs
<1>4. ASSUME NEW u \in Threads PROVE Taken(u)' /\ Dispatch(u)' /\ CbFiberOK(u)'
  <2>0. Taken(u) /\ Dispatch(u) /\ CbFiberOK(u)
    BY DEF Inv
  <2>1. CASE pc'[u] = pc[u]
    <3>1. Taken(u)'
      BY <1>1, <1>2, <1>3, <2>0, <2>1 DEF Taken, RightKind, Jobs
    <3>2. Dispatch(u)'
      BY <1>1, <1>2, <2>0, <2>1 DEF Dispatch, Enterable, Ended, OwnJob
    <3>3. CbFiberOK(u)'
      BY <1>1, <1>2, <2>0, <2>1 DEF CbFiberOK, Jobs
    <3>. QED
      BY <3>1, <3>2, <3>3
  <2>2. CASE Gone(u) /\ pc'[u] = "scan"
    <3>1. ~Busy(u) /\ ~Busy(u)' /\ ft[u] = NoTask
      BY <1>1, <2>0, <2>2 DEF Gone, Busy, Active, Taken
    <3>2. Taken(u)' /\ Dispatch(u)'
      BY <2>2, <3>1 DEF Taken, Dispatch
    <3>3. CbFiberOK(u)'
      BY <1>1, <1>2, <2>0, <3>1 DEF CbFiberOK, Jobs
    <3>. QED
      BY <3>2, <3>3
  <2>. QED
    BY <2>1, <2>2
<1>5. Separate'
  BY <1>1 DEF Inv, Separate
<1>6. Represented'
  <2>1. ASSUME NEW j \in Listed' PROVE Ready(j)' /\ \A t \in Threads : ~Answers(t, j)'
    <3>0. j \in Jobs
      BY ListedJobs DEF Inv
    <3>1. CASE j \in Listed
      BY <1>1, <1>3, <3>0, <3>1 DEF Inv, Represented
    <3>2. CASE j \in Y
      <4>1. j \in UserFibers => fib[j] = NewFiber(j)
        BY <3>2 DEF Inv, Represented
      <4>2. Ready(j)'
        BY <3>2, <4>1 DEF Ready, NewFiber
      <4>. QED
        BY <1>1, <3>0, <3>2, <4>2, AnswersPending
    <3>. QED
      BY <3>1, <3>2
  <2>2. \A j \in Jobs : status'[j] \in {"submitted", "begun"} =>
            j \in Listed' \/ \E t \in Threads : Answers(t, j)'
    BY <1>1 DEF Inv, Represented
  <2>3. \A j \in UserFibers : status'[j] = "fresh" => fib'[j] = NewFiber(j)
    BY DEF Inv, Represented, Jobs
  <2>. QED
    BY <2>1, <2>2, <2>3 DEF Represented, NewFiber
<1>. QED
  BY <1>4, <1>5, <1>6 DEF Inv

\* A function nobody has scheduled has no entry.
LEMMA FreshUnlisted ==
    ASSUME Inv, NEW j \in Jobs, status[j] = "fresh" PROVE j \notin Listed
  BY SchedulerAssumption DEF Inv, Represented, Ready, Jobs

\* schedule of one function ...
LEMMA ScheduleOne ==
    ASSUME Inv, NEW j \in Jobs, NEW thread \in Threads \cup {AnyThread}, status[j] = "fresh",
           Schedule(Entry(j, thread)), status' = [status EXCEPT ![j] = "submitted"]
    PROVE  /\ ListOK' /\ Listed' = Listed \cup {j}
           /\ status'[j] = "submitted"
           /\ \A k \in Jobs \ {j} : status'[k] = status[k]
<1>1. PICK e : e = Entry(j, thread)
  OBVIOUS
<1>2. e \in Fiber_and_Thread /\ RightKind(e) /\ e.id = j
  BY <1>1, EntryType DEF Entry, RightKind
<1>3. m_fibers' = Append(m_fibers, e)
  BY <1>1 DEF Schedule
<1>4. ListOK' /\ Listed' = Listed \cup {e.id}
  BY <1>2, <1>3, FreshUnlisted, AppendList DEF Inv
<1>5. /\ status'[j] = "submitted"
      /\ \A k \in Jobs \ {j} : status'[k] = status[k]
  BY DEF Inv, TypeOK
<1>. QED
  BY <1>2, <1>4, <1>5

LEMMA ScheduleInv ==
    ASSUME Inv, TypeOK', Dispatched', NEW j \in Jobs, NEW thread \in Threads \cup {AnyThread},
           \/ AppSchedule(j, thread)
           \/ \E t \in Threads : UserSchedule(t, j, thread)
    PROVE  Inv'
<1>1. /\ status[j] = "fresh" /\ Schedule(Entry(j, thread))
      /\ status' = [status EXCEPT ![j] = "submitted"]
      /\ UNCHANGED <<fib, ft, cb_fiber, waiters, pc, crash, caller>>
  BY DEF AppSchedule, UserSchedule, locals, owner
<1>2. /\ ListOK' /\ Listed' = Listed \cup {j}
      /\ status'[j] = "submitted"
      /\ \A k \in Jobs \ {j} : status'[k] = status[k]
  BY <1>1, ScheduleOne
<1>3. PICK Y \in SUBSET Jobs : Y = {j}
  OBVIOUS
<1>4. crash' # "none" => caller' = "root"
  BY <1>1 DEF Inv
<1>. QED
  BY <1>1, <1>2, <1>3, <1>4, OwnerStep

\* ... and of two at once.
LEMMA BatchInv ==
    ASSUME Inv, TypeOK', Dispatched', NEW j \in Jobs, NEW k \in Jobs, AppScheduleBatch(j, k)
    PROVE  Inv'
<1>1. /\ j # k /\ status[j] = "fresh" /\ status[k] = "fresh"
      /\ m_fibers' = m_fibers \o <<Entry(j, AnyThread), Entry(k, AnyThread)>>
      /\ status' = [status EXCEPT ![j] = "submitted", ![k] = "submitted"]
      /\ UNCHANGED <<fib, ft, cb_fiber, waiters, pc, crash, caller>>
  BY DEF AppScheduleBatch, locals, owner
<1>. DEFINE n == Len(m_fibers)
            d == Entry(j, AnyThread)
            e == Entry(k, AnyThread)
<1>2. /\ d \in Fiber_and_Thread /\ RightKind(d) /\ d.id = j
      /\ e \in Fiber_and_Thread /\ RightKind(e) /\ e.id = k
  BY EntryType DEF Entry, RightKind
<1>3. /\ n \in Nat /\ DOMAIN m_fibers = 1..n /\ DOMAIN m_fibers' = 1..(n + 2)
      /\ \A i \in 1..n : m_fibers'[i] = m_fibers[i]
      /\ m_fibers'[n + 1] = d /\ m_fibers'[n + 2] = e
  <2>. HIDE DEF d, e
  <2>1. m_fibers \in Seq(Fiber_and_Thread) /\ <<d, e>> \in Seq(Fiber_and_Thread)
        /\ m_fibers' = m_fibers \o <<d, e>>
    BY <1>1, <1>2 DEF Inv, TypeOK, d, e
  <2>. QED
    BY <2>1
<1>. HIDE DEF d, e, n
<1>4. /\ \A i \in 1..(n + 2) : i \in 1..n \/ i = n + 1 \/ i = n + 2
      /\ 1..n \subseteq 1..(n + 2) /\ n + 1 \in 1..(n + 2) /\ n + 2 \in 1..(n + 2)
  BY <1>3
<1>5. \A i \in 1..n : m_fibers[i].id \in Listed
  BY <1>3 DEF Listed
<1>6. j \notin Listed /\ k \notin Listed
  BY <1>1, FreshUnlisted
<1>7. Listed' = Listed \cup {j, k}
  <2>1. Listed' = {m_fibers'[i].id : i \in 1..(n + 2)}
    BY <1>3 DEF Listed
  <2>2. Listed = {m_fibers[i].id : i \in 1..n}
    BY <1>3 DEF Listed
  <2>. QED
    BY <1>2, <1>3, <1>4, <2>1, <2>2
<1>8. ListOK'
  <2>1. \A i \in 1..(n + 2) : RightKind(m_fibers'[i])
    BY <1>2, <1>3, <1>4 DEF Inv, ListOK
  <2>2. \A i, l \in 1..(n + 2) : i # l => m_fibers'[i].id # m_fibers'[l].id
    <3>1. \A i, l \in 1..n : i # l => m_fibers'[i].id # m_fibers'[l].id
      BY <1>3 DEF Inv, ListOK
    <3>2. \A i \in 1..n : m_fibers'[i].id # j /\ m_fibers'[i].id # k
      BY <1>3, <1>5, <1>6
    <3>3. m_fibers'[n + 1].id = j /\ m_fibers'[n + 2].id = k
      BY <1>2, <1>3
    <3>4. n + 1 # n + 2 /\ j # k
      BY <1>1, <1>3
    <3>. QED
      BY <1>4, <3>1, <3>2, <3>3, <3>4, Zenon
  <2>. QED
    BY <1>3, <2>1, <2>2 DEF ListOK, RightKind
<1>9. /\ status'[j] = "submitted" /\ status'[k] = "submitted"
      /\ \A i \in Jobs \ {j, k} : status'[i] = status[i]
  BY <1>1 DEF Inv, TypeOK
<1>10. PICK Y \in SUBSET Jobs : Y = {j, k}
  OBVIOUS
<1>11. crash' # "none" => caller' = "root"
  BY <1>1 DEF Inv
<1>12. /\ \A i \in Y : status[i] = "fresh" /\ status'[i] = "submitted"
       /\ \A i \in Jobs \ Y : status'[i] = status[i]
       /\ Listed' = Listed \cup Y
  BY <1>1, <1>7, <1>9, <1>10
<1>. QED
  BY <1>1, <1>8, <1>11, <1>12, OwnerStep

\* start() and stop().
LEMMA StartStopInv ==
    ASSUME Inv, Parked, TypeOK', Dispatched', crash = "none" \/ UNCHANGED vars,
           Start \/ Stop \/ StopStep \/ UNCHANGED vars
    PROVE  Inv'
<1>. USE SchedulerAssumption
<1>1. UNCHANGED <<fib, m_fibers, ft, cb_fiber, waiters, status>>
  <2>1. CASE Start
    BY <2>1 DEF Start, history
  <2>2. CASE Stop
    BY <2>2 DEF Stop, shared
  <2>3. CASE StopStep
    BY <2>3 DEF StopStep, RootReturn, SetStopping, Join, shared, locals, history
  <2>4. CASE UNCHANGED vars
    BY <2>4 DEF vars, shared, locals, history
  <2>. QED
    BY <2>1, <2>2, <2>3, <2>4
<1>2. \A u \in Threads : pc'[u] = pc[u] \/ (Gone(u) /\ pc'[u] = "scan")
  <2>1. CASE Start
    BY <2>1 DEF Start, Parked, Inv, TypeOK
  <2>2. CASE Stop
    <3>1. UNCHANGED pc \/ (pc' = [pc EXCEPT ![Root] = "scan"] /\ UseCaller /\ caller = "out")
      BY <2>2 DEF Stop, Goto
    <3>. QED
      BY <3>1 DEF Parked, Inv, TypeOK
  <2>3. CASE StopStep
    BY <2>3 DEF StopStep, RootReturn, SetStopping, Join, locals
  <2>4. CASE UNCHANGED vars
    BY <2>4 DEF vars, locals
  <2>. QED
    BY <2>1, <2>2, <2>3, <2>4
<1>3. ListOK' /\ Listed' = Listed
  BY <1>1 DEF Inv, ListOK, RightKind, Listed
<1>4. crash' # "none" => caller' = "root"
  <2>1. CASE UNCHANGED vars
    BY <2>1 DEF Inv, vars, owner, history
  <2>2. CASE crash = "none" /\ (Start \/ StopStep)
    BY <2>2 DEF Start, StopStep, RootReturn, SetStopping, Join, history
  <2>3. CASE crash = "none" /\ Stop
    BY <2>3 DEF Stop
  <2>. QED
    BY <2>1, <2>2, <2>3
<1>5. PICK Y \in SUBSET Jobs : Y = {}
  OBVIOUS
<1>. QED
  BY <1>1, <1>2, <1>3, <1>4, <1>5, OwnerStep

-----------------------------------------------------------------------------
(* The invariant is inductive *)

LEMMA InitInv == Init => Inv
<1>. SUFFICES ASSUME Init PROVE Inv
  OBVIOUS
<1>1. TypeOK /\ Dispatched
  BY InitTyped
<1>2. \A t \in Threads : ~Busy(t) /\ \A j \in Jobs : ~Answers(t, j)
  BY DEF Init, Busy, Active, Answers
<1>3. \A t \in Threads : Taken(t) /\ Dispatch(t) /\ CbFiberOK(t)
  BY <1>2 DEF Init, Taken, Dispatch, CbFiberOK
<1>4. Listed = {} /\ ListOK
  BY DEF Init, Listed, ListOK
<1>5. Separate
  BY <1>2 DEF Init, Separate
<1>6. Represented
  BY <1>4 DEF Init, Represented, Jobs
<1>. QED
  BY <1>1, <1>3, <1>4, <1>5, <1>6 DEF Inv, Init

\* Of all steps only stop() can end in a failed assertion (a root fiber that
\* has ended is called again); everything else is kept by every step.
LEMMA InvStep ==
    ASSUME NoHolds, Inv, Parked, [Next]_vars
    PROVE  Inv' /\ (crash = "none" /\ crash' # "none" => Stop)
<1>. USE SchedulerAssumption
<1>1. TypeOK' /\ Dispatched'
  BY TypeStep, DispatchedStep DEF Inv
<1>2. ASSUME NEW t \in Threads, RunStep(t), crash = "none" PROVE Inv' /\ crash' = "none"
  <2>1. CASE TakeTask(t)
    BY <1>1, <1>2, <2>1, TakeTaskInv DEF TakeTask, history
  <2>2. CASE FindNothing(t)
    BY <1>1, <1>2, <2>2, FindNothingInv DEF FindNothing, history
  <2>3. CASE DispatchFiber(t)
    BY <1>1, <1>2, <2>3, DispatchFiberInv DEF DispatchFiber, history
  <2>4. CASE DispatchCb(t)
    BY <1>1, <1>2, <2>4, DispatchCbInv
  <2>5. CASE Resume(t)
    BY <1>1, <1>2, <2>5, ResumeInv
  <2>6. CASE Leave(t)
    BY <1>1, <1>2, <2>6, LeaveInv DEF Leave, history
  <2>7. CASE AfterFiber(t)
    BY <1>1, <1>2, <2>7, AfterFiberInv DEF AfterFiber, history
  <2>8. CASE AfterCb(t)
    <3>1. UNCHANGED crash
      BY <2>8, Zenon DEF AfterCb, history
    <3>. QED
      BY <1>1, <1>2, <2>8, <3>1, AfterCbInv
  <2>9. CASE Idle(t) \/ Exit(t)
    BY <1>1, <1>2, <2>9, IdleInv DEF Idle, Exit, history
  <2>. QED
    BY <1>2, <2>1, <2>2, <2>3, <2>4, <2>5, <2>6, <2>7, <2>8, <2>9 DEF RunStep
<1>3. ASSUME NEW t \in Threads, UserStep(t), crash = "none" PROVE Inv' /\ crash' = "none"
  <2>1. ASSUME NEW j \in Jobs, NEW thread \in SpawnPins, UserSchedule(t, j, thread)
        PROVE  Inv' /\ crash' = "none"
    BY <1>1, <1>3, <2>1, ScheduleInv DEF UserSchedule
  <2>2. CASE YieldToReady(t)
    BY <1>1, <1>3, <2>2, YieldToReadyInv DEF YieldToReady
  <2>3. CASE Register(t)
    BY <2>3 DEF Register, NoHolds, OpsOf
  <2>4. CASE YieldToHold(t)
    BY <2>4 DEF YieldToHold, Inv, Taken
  <2>5. ASSUME NEW throws \in BOOLEAN, Finish(t, throws) PROVE Inv' /\ crash' = "none"
    BY <1>1, <1>3, <2>5, FinishInv DEF Finish
  <2>. QED
    BY <1>3, <2>1, <2>2, <2>3, <2>4, <2>5 DEF UserStep
<1>4. ASSUME NEW f \in Jobs, Wake(f) PROVE FALSE
  BY <1>4 DEF Wake, Inv
<1>5. ASSUME AppStep \/ StopStep, crash = "none"
      PROVE  Inv' /\ (crash' # "none" => Stop)
  <2>1. CASE Start \/ StopStep
    BY <1>1, <1>5, <2>1, StartStopInv
    DEF Start, StopStep, RootReturn, SetStopping, Join, history
  <2>2. CASE Stop
    BY <1>1, <1>5, <2>2, StartStopInv
  <2>3. ASSUME NEW j \in Jobs, NEW thread \in AppPins, AppSchedule(j, thread)
        PROVE  Inv' /\ crash' = "none"
    BY <1>1, <1>5, <2>3, ScheduleInv DEF AppSchedule
  <2>4. ASSUME NEW j \in Jobs, NEW k \in Jobs, AppScheduleBatch(j, k)
        PROVE  Inv' /\ crash' = "none"
    BY <1>1, <1>5, <2>4, BatchInv DEF AppScheduleBatch
  <2>. QED
    BY <1>5, <2>1, <2>2, <2>3, <2>4 DEF AppStep
<1>6. CASE UNCHANGED vars
  <2>1. UNCHANGED crash
    BY <1>6 DEF vars, history
  <2>. QED
    BY <1>1, <1>6, <2>1, StartStopInv
<1>. QED
  BY <1>2, <1>3, <1>4, <1>5, <1>6 DEF Next, Step, Over

LEMMA InvHolds ==
    ASSUME NoHolds PROVE Spec => [](Inv /\ Parked)
<1>1. Init => Inv /\ Parked
  BY InitInv DEF Init, Parked, Gone, Threads
<1>2. Inv /\ Parked /\ [Next]_vars => Inv' /\ Parked'
  BY InvStep, ParkedStep DEF Inv
<1>. QED
  BY <1>1, <1>2, PTL DEF Spec

-----------------------------------------------------------------------------
(* Theorems *)

\* No fiber is executed by two threads at once: what run() skips an entry in
\* state EXEC for.  (Where functions hold it does not suffice: SchedHoldRace.)
THEOREM ExclusiveCorrect ==
    ASSUME NoHolds PROVE Spec => []ExclusiveExecution
<1>1. Inv => ExclusiveExecution
  BY DEF Inv, Separate, ExclusiveExecution, Busy
<1>. QED
  BY <1>1, InvHolds, PTL

\* A function that was scheduled and has not finished has one representative,
\* an entry or a thread: run() neither drops nor doubles it.
THEOREM RepresentativeCorrect ==
    ASSUME NoHolds PROVE Spec => []OneRepresentative
<1>1. ASSUME Inv PROVE OneRepresentative
  <2>. SUFFICES ASSUME NEW j \in Jobs, status[j] \in {"submitted", "begun"}
                PROVE  Cardinality(HoldersOf(j)) + Cardinality(EntriesOf(j)) = 1
    BY DEF OneRepresentative
  <2>. USE SchedulerAssumption
  <2>0. Inv
    BY <1>1
  <2>1. ASSUME NEW t \in Threads PROVE Holds(t, j) <=> Answers(t, j)
    <3>0. Taken(t) /\ Dispatch(t)
      BY <2>0 DEF Inv
    <3>1. ASSUME pc[t] = "got" PROVE Stands(ft[t], j) <=> ft[t].id = j
      BY <3>0, <3>1 DEF Taken, Ready, Stands, RightKind, Jobs
    <3>2. ASSUME pc[t] = "ended" \/ (pc[t] = "after" /\ fib[Cur(t)].state # "READY")
          PROVE  fib[Cur(t)].job # j
      BY <3>0, <3>2 DEF Dispatch, Ended
    <3>. QED
      BY <3>0, <3>1, <3>2 DEF Holds, Answers, Taken
  <2>2. ASSUME NEW i \in DOMAIN m_fibers
        PROVE  Stands(m_fibers[i], j) <=> m_fibers[i].id = j
    <3>1. RightKind(m_fibers[i]) /\ m_fibers[i].id \in Listed /\ m_fibers[i].id \in Jobs
      BY <2>0, ListedJobs DEF Inv, ListOK, Listed
    <3>2. Ready(m_fibers[i].id)
      BY <2>0, <3>1 DEF Inv, Represented
    <3>. QED
      BY <3>1, <3>2 DEF Ready, Stands, RightKind, Jobs
  <2>3. CASE j \in Listed
    <3>1. PICK i \in DOMAIN m_fibers : m_fibers[i].id = j
      BY <2>3 DEF Listed
    <3>2. EntriesOf(j) = {i}
      BY <2>0, <2>2, <3>1 DEF EntriesOf, Inv, ListOK
    <3>3. HoldersOf(j) = {}
      BY <2>0, <2>1, <2>3 DEF HoldersOf, Inv, Represented
    <3>4. Cardinality(EntriesOf(j)) = 1 /\ Cardinality(HoldersOf(j)) = 0
      BY <3>2, <3>3, FS_Singleton, FS_EmptySet
    <3>. QED
      BY <3>4
  <2>4. CASE j \notin Listed
    <3>1. PICK t \in Threads : Answers(t, j)
      BY <2>0, <2>4 DEF Inv, Represented
    <3>2. HoldersOf(j) = {t}
      BY <2>0, <2>1, <3>1 DEF HoldersOf, Inv, Separate
    <3>3. EntriesOf(j) = {}
      BY <2>2, <2>4 DEF EntriesOf, Listed
    <3>4. Cardinality(EntriesOf(j)) = 0 /\ Cardinality(HoldersOf(j)) = 1
      BY <3>2, <3>3, FS_Singleton, FS_EmptySet
    <3>. QED
      BY <3>4
  <2>. QED
    BY <2>3, <2>4
<1>. QED
  BY <1>1, InvHolds, PTL

-----------------------------------------------------------------------------
(* The assertions *)

\* A root fiber that has ended belongs to a stop() that is under way or over.
RootOnce == root_state = "TERM" => caller \in {"flag", "join"} \/ rounds > 0

LEMMA RootOnceStep == TypeOK /\ RootOnce /\ [Next]_vars => RootOnce'
<1>. SUFFICES ASSUME TypeOK, RootOnce, [Next]_vars PROVE RootOnce'
  OBVIOUS
<1>. USE DEF RootOnce, owner, history
<1>1. ASSUME NEW t \in Threads, RunStep(t) \/ UserStep(t) PROVE RootOnce'
  <2>1. UNCHANGED <<caller, root_state>>
    BY <1>1, ActiveStep
  <2>2. CASE AfterCb(t)
    <3>1. UNCHANGED rounds
      BY <2>2, Zenon DEF AfterCb
    <3>. QED
      BY <2>1, <3>1
  <2>3. CASE RunStep(t) /\ ~AfterCb(t)
    <3>1. UNCHANGED rounds
      BY <2>3 DEF RunStep, TakeTask, FindNothing, DispatchFiber, DispatchCb, Resume, Leave,
         AfterFiber, Idle, Exit
    <3>. QED
      BY <2>1, <3>1
  <2>4. CASE UserStep(t)
    <3>1. UNCHANGED rounds
      BY <2>4 DEF UserStep, UserSchedule, YieldToReady, Register, YieldToHold, Finish
    <3>. QED
      BY <2>1, <3>1
  <2>. QED
    BY <1>1, <2>2, <2>3, <2>4
<1>2. ASSUME NEW f \in Jobs, Wake(f) PROVE RootOnce'
  BY <1>2 DEF Wake
<1>3. CASE AppStep
  <2>1. CASE Stop
    BY <2>1 DEF Stop, TypeOK
  <2>2. CASE AppStep /\ ~Stop
    <3>1. UNCHANGED <<caller, root_state, rounds>>
      BY <2>2 DEF AppStep, Start, AppSchedule, AppScheduleBatch
    <3>. QED
      BY <3>1
  <2>. QED
    BY <1>3, <2>1, <2>2
<1>4. CASE StopStep
  BY <1>4 DEF StopStep, RootReturn, SetStopping, Join, TypeOK
<1>5. CASE UNCHANGED vars
  BY <1>5 DEF vars
<1>. QED
  BY <1>1, <1>2, <1>3, <1>4, <1>5 DEF Next, Step, Over

\* No assertion of fiber.cc fails, as long as stop() is not called again on a
\* scheduler that was built with use_caller: the root fiber it would call has
\* ended.
THEOREM AssertionsHold ==
    ASSUME NoHolds, UseCaller => MaxRounds <= 1
    PROVE  Spec => []NoAssertionFails
<1>1. Init => RootOnce /\ crash = "none"
  BY DEF Init, RootOnce
<1>2. Inv /\ Parked /\ RootOnce /\ crash = "none" /\ [Next]_vars => RootOnce' /\ (crash = "none")'
  <2>. SUFFICES ASSUME Inv, Parked, RootOnce, crash = "none", [Next]_vars
                PROVE  RootOnce' /\ crash' = "none"
    OBVIOUS
  <2>1. RootOnce'
    BY RootOnceStep DEF Inv
  <2>2. CASE Stop
    BY <2>2, SchedulerAssumption DEF Stop, RootOnce, Inv, TypeOK
  <2>. QED
    BY <2>1, <2>2, InvStep
<1>. QED
  BY <1>1, <1>2, InvHolds, PTL DEF Spec, NoAssertionFails

-----------------------------------------------------------------------------
(* What stop() leaves behind *)

\* There is a thread, and no fiber pins what it schedules to another thread
\* than the one that will be there at the end.
PinsSafe == Threads # {} /\ \A p \in SpawnPins, t \in Threads : p \in {AnyThread, t}

\* Thread t will scan the list once more before it leaves run().
Rescans(t) ==
    \/ pc[t] \notin {"off", "exited", "none"}
    \/ pc[t] = "none" /\ ~idle_term[t]

\* Idle fibers end only while the scheduler is stopping; with use_caller that
\* is the root thread's alone.
IdleEnds ==
    /\ ~m_stopping \/ UseCaller => \A t \in Workers : ~idle_term[t]
    /\ UseCaller /\ m_stopping => \A t \in Workers : Gone(t)
    /\ ~UseCaller /\ (caller # "out" \/ ~m_stopping) => \A t \in Workers : pc[t] # "off"
    /\ \A t \in Threads : pc[t] = "exited" => idle_term[t]
    /\ UseCaller /\ caller = "root" /\ idle_term[Root] => m_stopping
    /\ UseCaller /\ caller \in {"flag", "join"} => m_stopping /\ m_fibers = <<>>

\* Once an idle fiber has ended during a stop(), what is listed can be taken
\* by any thread, and a thread will still look for it.
LastScan ==
    caller # "out" /\ (\E t \in Threads : idle_term[t]) =>
        /\ \A i \in DOMAIN m_fibers, t \in Threads : m_fibers[i].thread \in {AnyThread, t}
        /\ m_fibers # <<>> => \E t \in Threads : Rescans(t)

Drain == crash = "none" => IdleEnds /\ LastScan

\* What a thread's step may do to the list and to its idle fiber.
LEMMA ThreadEffect ==
    ASSUME NoHolds, Inv, NEW t \in Threads, RunStep(t) \/ UserStep(t)
    PROVE  /\ \A u \in Threads \ {t} : pc'[u] = pc[u] /\ idle_term'[u] = idle_term[u]
           /\ UNCHANGED <<m_stopping, caller>>
           /\ ~Gone(t) /\ pc'[t] # "off"
           /\ pc'[t] = "exited" => idle_term'[t]
           /\ \/ idle_term'[t] = idle_term[t]
              \/ m_stopping /\ m_fibers = <<>> /\ m_fibers' = <<>>
           /\ Rescans(t)' \/ (FindNothing(t) /\ idle_term[t]) \/ Exit(t)
           /\ \A i \in DOMAIN m_fibers' :
                  \/ \E k \in DOMAIN m_fibers : m_fibers'[i] = m_fibers[k]
                  \/ m_fibers'[i].thread \in SpawnPins \cup {AnyThread}
<1>. DEFINE Keeps == /\ UNCHANGED <<m_fibers, idle_term>>
                     /\ pc'[t] \notin {"off", "exited", "none"}
            Grows(e) == /\ m_fibers' = Append(m_fibers, e) /\ e \in Fiber_and_Thread
                        /\ UNCHANGED idle_term
                        /\ pc'[t] \notin {"off", "exited", "none"}
<1>1. /\ \A u \in Threads \ {t} : pc'[u] = pc[u]
      /\ UNCHANGED <<m_stopping, caller>>
      /\ ~Gone(t)
  BY ActiveStep DEF owner, Inv
<1>2. CASE Keeps
  BY <1>1, <1>2 DEF Rescans
<1>3. ASSUME NEW e, Grows(e), e.thread \in SpawnPins \cup {AnyThread}
      PROVE  \A i \in DOMAIN m_fibers' :
                  \/ \E k \in DOMAIN m_fibers : m_fibers'[i] = m_fibers[k]
                  \/ m_fibers'[i].thread \in SpawnPins \cup {AnyThread}
  <2>1. m_fibers \in Seq(Fiber_and_Thread)
    BY DEF Inv, TypeOK
  <2>2. /\ DOMAIN m_fibers = 1..Len(m_fibers) /\ DOMAIN m_fibers' = 1..(Len(m_fibers) + 1)
        /\ \A i \in 1..Len(m_fibers) : m_fibers'[i] = m_fibers[i]
        /\ m_fibers'[Len(m_fibers) + 1] = e
    BY <1>3, <2>1
  <2>3. \A i \in DOMAIN m_fibers' : i \in DOMAIN m_fibers \/ i = Len(m_fibers) + 1
    BY <2>1, <2>2
  <2>. QED
    BY <1>3, <2>2, <2>3
<1>4. CASE TakeTask(t)
  <2>1. PICK i \in DOMAIN m_fibers : m_fibers' = RemoveAt(m_fibers, i)
    BY <1>4 DEF TakeTask, Erase
  <2>2. /\ m_fibers \in Seq(Fiber_and_Thread) /\ i \in 1..Len(m_fibers)
        /\ DOMAIN m_fibers = 1..Len(m_fibers)
    BY DEF Inv, TypeOK
  <2>3. /\ m_fibers' \in Seq(Fiber_and_Thread) /\ Len(m_fibers') = Len(m_fibers) - 1
        /\ \A k \in 1..(Len(m_fibers) - 1) :
               m_fibers'[k] = IF k < i THEN m_fibers[k] ELSE m_fibers[k + 1]
    BY <2>1, <2>2, RemoveAtFacts
  <2>4. \A k \in DOMAIN m_fibers' : \E l \in DOMAIN m_fibers : m_fibers'[k] = m_fibers[l]
    <3>1. DOMAIN m_fibers' = 1..(Len(m_fibers) - 1)
      BY <2>3
    <3>2. \A k \in 1..(Len(m_fibers) - 1) : k \in 1..Len(m_fibers) /\ k + 1 \in 1..Len(m_fibers)
      BY <2>2
    <3>. QED
      BY <2>2, <2>3, <3>1, <3>2
  <2>5. UNCHANGED idle_term /\ pc'[t] = "got"
    BY <1>4 DEF TakeTask, Goto, Inv, TypeOK
  <2>. QED
    BY <1>1, <2>4, <2>5 DEF Rescans
<1>5. CASE FindNothing(t)
  <2>1. UNCHANGED <<m_fibers, idle_term>> /\ pc'[t] = "none"
    BY <1>5 DEF FindNothing, Goto, shared, Inv, TypeOK
  <2>2. idle_term[t] \in BOOLEAN
    BY DEF Inv, TypeOK
  <2>. QED
    BY <1>1, <1>5, <2>1, <2>2 DEF Rescans
<1>6. CASE Idle(t)
  <2>1. /\ UNCHANGED m_fibers /\ pc'[t] = "scan"
        /\ idle_term' = [idle_term EXCEPT ![t] = stopping]
        /\ ~idle_term[t]
    BY <1>6 DEF Idle, Goto, shared, Inv, TypeOK
  <2>2. idle_term'[t] = stopping /\ \A u \in Threads \ {t} : idle_term'[u] = idle_term[u]
    BY <2>1 DEF Inv, TypeOK
  <2>3. idle_term'[t] = idle_term[t] \/ (m_stopping /\ m_fibers = <<>>)
    <3>1. CASE stopping
      BY <3>1 DEF stopping
    <3>2. CASE ~stopping
      <4>1. stopping = FALSE
        BY <3>2 DEF stopping
      <4>2. idle_term[t] \in BOOLEAN
        BY DEF Inv, TypeOK
      <4>3. idle_term[t] = FALSE
        BY <2>1, <4>2
      <4>. QED
        BY <2>2, <4>1, <4>3
    <3>. QED
      BY <3>1, <3>2
  <2>. QED
    BY <1>1, <2>1, <2>2, <2>3 DEF Rescans
<1>7. CASE Exit(t)
  BY <1>1, <1>7 DEF Exit, Goto, shared, Inv, TypeOK
<1>8. CASE DispatchFiber(t) \/ DispatchCb(t) \/ Resume(t) \/ Leave(t)
  <2>1. Keeps
    BY <1>8 DEF DispatchFiber, DispatchCb, Resume, Leave, Goto, Inv, TypeOK
  <2>. QED
    BY <1>2, <2>1
<1>9. CASE AfterFiber(t)
  <2>1. PICK e : e = FiberEntry(ft[t].id)
    OBVIOUS
  <2>2. e \in Fiber_and_Thread /\ e.thread = AnyThread
    <3>1. ft[t].id \in Jobs
      BY <1>9 DEF AfterFiber, Inv, Dispatched, Cur
    <3>. QED
      BY <2>1, <3>1, EntryType DEF FiberEntry
  <2>3. Keeps \/ Grows(e)
    BY <1>9, <2>1, <2>2 DEF AfterFiber, Goto, Schedule, Inv, TypeOK
  <2>. QED
    BY <1>1, <1>2, <1>3, <2>2, <2>3 DEF Rescans
<1>10. CASE AfterCb(t)
  <2>1. PICK e : e = FiberEntry(cb_fiber[t])
    OBVIOUS
  <2>2. e \in Fiber_and_Thread /\ e.thread = AnyThread
    <3>1. cb_fiber[t] \in Jobs
      <4>1. pc[t] = "after" /\ ft[t].kind # "fiber"
        BY <1>10, Zenon DEF AfterCb
      <4>. QED
        BY <4>1 DEF Inv, Dispatched, Cur
    <3>. QED
      BY <2>1, <3>1, EntryType DEF FiberEntry
  <2>3. /\ m_fibers' = Append(m_fibers, e) \/ UNCHANGED m_fibers
        /\ pc' = [pc EXCEPT ![t] = "scan"] /\ UNCHANGED idle_term
    BY <1>10, <2>1, Zenon DEF AfterCb, Goto, Schedule
  <2>4. pc'[t] = "scan"
    BY <2>3 DEF Inv, TypeOK
  <2>5. Keeps \/ Grows(e)
    BY <2>2, <2>3, <2>4
  <2>. QED
    BY <1>1, <1>2, <1>3, <2>2, <2>5 DEF Rescans
<1>11. ASSUME NEW j \in Jobs, NEW thread \in SpawnPins, UserSchedule(t, j, thread)
       PROVE  \E e : Grows(e) /\ e.thread \in SpawnPins \cup {AnyThread}
  <2>1. PICK e : e = Entry(j, thread)
    OBVIOUS
  <2>2. e \in Fiber_and_Thread /\ e.thread = thread
    BY <2>1, EntryType, SchedulerAssumption DEF Entry
  <2>3. Grows(e)
    BY <1>11, <2>1, <2>2 DEF UserSchedule, Schedule, locals
  <2>. QED
    BY <2>2, <2>3
<1>12. CASE UserStep(t)
  <2>1. CASE \E j \in Jobs, thread \in SpawnPins : UserSchedule(t, j, thread)
    <3>1. PICK e : Grows(e) /\ e.thread \in SpawnPins \cup {AnyThread}
      BY <1>11, <2>1
    <3>. QED
      BY <1>1, <1>3, <3>1 DEF Rescans
  <2>2. CASE YieldToReady(t) \/ Register(t) \/ YieldToHold(t)
    <3>1. Keeps
      BY <2>2 DEF YieldToReady, Register, YieldToHold, Goto, Inv, TypeOK
    <3>. QED
      BY <1>2, <3>1
  <2>3. CASE \E throws \in BOOLEAN : Finish(t, throws)
    <3>1. Keeps
      BY <2>3 DEF Finish, Goto, Inv, TypeOK
    <3>. QED
      BY <1>2, <3>1
  <2>. QED
    BY <1>12, <2>1, <2>2, <2>3 DEF UserStep
<1>. QED
  BY <1>4, <1>5, <1>6, <1>7, <1>8, <1>9, <1>10, <1>12 DEF RunStep

\* The invariant about the end of run() is inductive.
LEMMA DrainStep ==
    ASSUME NoHolds, PinsSafe, Inv, Parked, Drain, [Next]_vars PROVE Drain'
<1>. SUFFICES ASSUME crash' = "none" PROVE IdleEnds' /\ LastScan'
  BY DEF Drain
<1>. USE SchedulerAssumption
<1>0. \A t \in Threads : idle_term[t] \in BOOLEAN
  BY DEF Inv, TypeOK
<1>1. ASSUME NEW t \in Threads, RunStep(t) \/ UserStep(t), crash = "none"
      PROVE  IdleEnds' /\ LastScan'
  <2>1. IdleEnds /\ LastScan
    BY <1>1 DEF Drain
  <2>2. /\ \A u \in Threads \ {t} : pc'[u] = pc[u] /\ idle_term'[u] = idle_term[u]
        /\ UNCHANGED <<m_stopping, caller>>
        /\ ~Gone(t) /\ pc'[t] # "off"
        /\ pc'[t] = "exited" => idle_term'[t]
        /\ \/ idle_term'[t] = idle_term[t]
           \/ m_stopping /\ m_fibers = <<>> /\ m_fibers' = <<>>
    BY <1>1, ThreadEffect
  <2>3. Rescans(t)' \/ (FindNothing(t) /\ idle_term[t]) \/ Exit(t)
    BY <1>1, ThreadEffect
  <2>4. \A i \in DOMAIN m_fibers' :
            \/ \E k \in DOMAIN m_fibers : m_fibers'[i] = m_fibers[k]
            \/ m_fibers'[i].thread \in SpawnPins \cup {AnyThread}
    BY <1>1, ThreadEffect
  <2>5. IdleEnds'
    <3>1. ~(UseCaller /\ caller \in {"flag", "join"})
      BY <2>1, <2>2 DEF IdleEnds, Parked, Threads
    <3>2. UseCaller /\ m_stopping => t \notin Workers
      BY <2>1, <2>2 DEF IdleEnds
    <3>3. \A u \in Workers : u \in Threads
      BY DEF Threads
    <3>4. (~m_stopping \/ UseCaller => \A u \in Workers : ~idle_term[u])'
      BY <2>1, <2>2, <3>2, <3>3 DEF IdleEnds
    <3>5. (UseCaller /\ m_stopping => \A u \in Workers : Gone(u))'
      BY <2>1, <2>2, <3>2, <3>3 DEF IdleEnds, Gone
    <3>6. (~UseCaller /\ (caller # "out" \/ ~m_stopping) => \A u \in Workers : pc[u] # "off")'
      BY <2>1, <2>2, <3>3 DEF IdleEnds
    <3>7. (\A u \in Threads : pc[u] = "exited" => idle_term[u])'
      BY <2>1, <2>2 DEF IdleEnds
    <3>8. UseCaller => Root \in Threads
      BY DEF Threads
    <3>9. (UseCaller /\ caller = "root" /\ idle_term[Root] => m_stopping)'
      BY <2>1, <2>2, <3>8 DEF IdleEnds
    <3>. QED
      BY <2>2, <3>1, <3>4, <3>5, <3>6, <3>7, <3>9 DEF IdleEnds
  <2>6. LastScan'
    <3>. SUFFICES ASSUME caller # "out", NEW v \in Threads, idle_term'[v]
                  PROVE  /\ \A i \in DOMAIN m_fibers', u \in Threads :
                                m_fibers'[i].thread \in {AnyThread, u}
                         /\ m_fibers' # <<>> => \E u \in Threads : Rescans(u)'
      BY <2>2 DEF LastScan
    <3>1. CASE m_fibers' = <<>>
      BY <3>1
    <3>2. CASE m_fibers' # <<>>
      <4>1. idle_term[v] /\ idle_term'[t] = idle_term[t]
        BY <2>2, <3>2
      <4>2. /\ \A i \in DOMAIN m_fibers, u \in Threads : m_fibers[i].thread \in {AnyThread, u}
            /\ m_fibers # <<>> => \E u \in Threads : Rescans(u)
        BY <2>1, <4>1 DEF LastScan
      <4>3. \A i \in DOMAIN m_fibers', u \in Threads : m_fibers'[i].thread \in {AnyThread, u}
        BY <2>4, <4>2 DEF PinsSafe
      <4>4. CASE Rescans(t)'
        BY <4>3, <4>4
      <4>5. CASE FindNothing(t) /\ idle_term[t]
        <5>1. UNCHANGED m_fibers
          BY <4>5 DEF FindNothing, shared
        <5>2. PICK i \in DOMAIN m_fibers : TRUE
          <6>1. m_fibers \in Seq(Fiber_and_Thread) /\ m_fibers # <<>>
            BY <3>2, <5>1 DEF Inv, TypeOK
          <6>2. Len(m_fibers) \in Nat \ {0} /\ DOMAIN m_fibers = 1..Len(m_fibers)
            BY <6>1, EmptySeq
          <6>. QED
            BY <6>2
        <5>3. ~Eligible(t, m_fibers[i]) /\ m_fibers[i].thread \in {AnyThread, t}
          BY <4>2, <4>5 DEF FindNothing
        <5>4. m_fibers[i].kind = "fiber" /\ fib[m_fibers[i].id].state = "EXEC"
          BY <5>3 DEF Eligible
        <5>5. Ready(m_fibers[i].id) /\ RightKind(m_fibers[i]) /\ m_fibers[i].id \in Jobs
          BY ListedJobs DEF Inv, ListOK, Listed, Represented
        <5>. QED
          BY <5>4, <5>5 DEF Ready, RightKind, Jobs
      <4>6. CASE Exit(t)
        <5>1. UNCHANGED m_fibers /\ pc[t] = "none" /\ idle_term[t]
          BY <4>6 DEF Exit, shared
        <5>2. PICK u \in Threads : Rescans(u)
          BY <3>2, <4>2, <5>1
        <5>3. u # t
          BY <5>1, <5>2 DEF Rescans
        <5>4. Rescans(u)'
          BY <2>2, <5>2, <5>3 DEF Rescans
        <5>. QED
          BY <4>3, <5>4
      <4>. QED
        BY <2>3, <4>4, <4>5, <4>6
    <3>. QED
      BY <3>1, <3>2
  <2>. QED
    BY <2>5, <2>6
<1>2. ASSUME NEW f \in Jobs, Wake(f) PROVE FALSE
  BY <1>2 DEF Wake, Inv
<1>3. ASSUME Start, crash = "none" PROVE IdleEnds' /\ LastScan'
  <2>1. /\ IdleEnds /\ m_stopping /\ ~m_stopping' /\ caller' = "out" /\ caller = "out"
        /\ \A t \in Threads : pc'[t] = IF t \in Workers THEN "scan" ELSE pc[t]
        /\ \A t \in Threads : idle_term'[t] = (t \notin Workers /\ idle_term[t])
        /\ \A t \in Workers : t \in Threads
    BY <1>3 DEF Start, NewIdleFibers, Drain, owner, Threads
  <2>2. \A t \in Threads : t \notin Workers => idle_term'[t] = idle_term[t]
    BY <1>0, <2>1
  <2>3. IdleEnds'
    BY <2>1, <2>2 DEF IdleEnds
  <2>. QED
    BY <2>1, <2>3 DEF LastScan
<1>4. ASSUME Stop, crash = "none" PROVE IdleEnds' /\ LastScan'
  <2>1. IdleEnds /\ LastScan /\ UNCHANGED <<m_fibers, m_stopping>> /\ caller = "out"
        /\ (UseCaller \/ ~m_stopping)
    BY <1>4 DEF Stop, Drain, shared
  <2>2. \A t \in Workers : t \in Threads
    BY DEF Threads
  <2>3. CASE UNCHANGED <<caller, pc, idle_term>>
    BY <2>1, <2>3 DEF IdleEnds, LastScan, Gone
  <2>4. CASE /\ UseCaller /\ caller' = "root"
             /\ pc' = [pc EXCEPT ![Root] = "scan"]
             /\ idle_term' = [idle_term EXCEPT ![Root] = FALSE]
    <3>1. /\ Root \in Threads /\ pc'[Root] = "scan" /\ ~idle_term'[Root]
          /\ \A t \in Threads \ {Root} : pc'[t] = pc[t] /\ idle_term'[t] = idle_term[t]
          /\ \A t \in Threads : t = Root \/ t \in Workers
          /\ Root \notin Workers
      BY <2>4 DEF Inv, TypeOK, Threads
    <3>2. \A t \in Threads : ~idle_term'[t]
      BY <2>1, <2>4, <3>1 DEF IdleEnds
    <3>3. IdleEnds'
      BY <2>1, <2>2, <2>4, <3>1, <3>2 DEF IdleEnds, Gone
    <3>. QED
      BY <3>2, <3>3 DEF LastScan
  <2>5. CASE /\ caller' = "flag" /\ UNCHANGED <<pc, idle_term>>
             /\ UseCaller => stopping
    <3>1. UseCaller => m_stopping /\ m_fibers = <<>>
      BY <2>5 DEF stopping
    <3>2. IdleEnds'
      BY <2>1, <2>2, <2>5, <3>1 DEF IdleEnds, Gone
    <3>3. CASE UseCaller
      BY <2>1, <3>1, <3>2, <3>3 DEF LastScan
    <3>4. CASE ~UseCaller
      BY <2>1, <2>5, <3>2, <3>4 DEF LastScan, IdleEnds, Threads
    <3>. QED
      BY <3>2, <3>3, <3>4
  <2>. QED
    BY <1>4, <2>3, <2>4, <2>5 DEF Stop, Goto
<1>5. ASSUME crash = "none",
             \/ \E j \in Jobs, thread \in AppPins : AppSchedule(j, thread)
             \/ \E j, k \in Jobs : AppScheduleBatch(j, k)
      PROVE  IdleEnds' /\ LastScan'
  <2>1. IdleEnds /\ caller = "out" /\ UNCHANGED <<caller, m_stopping, pc, idle_term>>
    BY <1>5 DEF AppSchedule, AppScheduleBatch, locals, owner, Drain
  <2>. QED
    BY <2>1 DEF IdleEnds, LastScan, Gone
<1>6. ASSUME RootReturn, crash = "none" PROVE IdleEnds' /\ LastScan'
  <2>1. /\ IdleEnds /\ LastScan /\ caller = "root" /\ caller' = "flag"
        /\ pc[Root] = "exited"
        /\ UNCHANGED <<m_fibers, m_stopping, pc, idle_term>>
    BY <1>6 DEF RootReturn, shared, locals, Drain
  <2>2. ASSUME UseCaller PROVE m_stopping /\ m_fibers = <<>>
    <3>1. Root \in Threads /\ idle_term[Root] /\ m_stopping
      BY <2>1, <2>2 DEF IdleEnds, Threads
    <3>2. \A t \in Threads : ~Rescans(t)
      BY <2>1, <2>2, <3>1 DEF IdleEnds, Threads, Gone, Rescans
    <3>. QED
      BY <2>1, <3>1, <3>2 DEF LastScan
  <2>3. IdleEnds'
    BY <2>1, <2>2 DEF IdleEnds, Gone
  <2>. QED
    BY <2>1, <2>3 DEF LastScan, Rescans
<1>7. ASSUME SetStopping, crash = "none" PROVE IdleEnds' /\ LastScan'
  <2>1. /\ IdleEnds /\ LastScan /\ caller = "flag" /\ caller' = "join" /\ m_stopping'
        /\ UNCHANGED <<m_fibers, pc, idle_term>>
    BY <1>7 DEF SetStopping, locals, Drain
  <2>2. IdleEnds'
    BY <2>1 DEF IdleEnds, Gone
  <2>. QED
    BY <2>1, <2>2 DEF LastScan, Rescans
<1>8. ASSUME Join, crash = "none" PROVE IdleEnds' /\ LastScan'
  <2>1. /\ IdleEnds /\ caller = "join" /\ caller' = "out"
        /\ UNCHANGED <<m_fibers, m_stopping, pc, idle_term>>
    BY <1>8 DEF Join, shared, locals, Drain
  <2>2. IdleEnds'
    BY <2>1 DEF IdleEnds, Gone
  <2>. QED
    BY <2>1, <2>2 DEF LastScan
<1>9. ASSUME UNCHANGED vars PROVE IdleEnds' /\ LastScan'
  <2>1. UNCHANGED <<crash, m_fibers, m_stopping, pc, idle_term, caller>>
    BY <1>9 DEF vars, shared, locals, owner, history
  <2>. QED
    BY <2>1 DEF Drain, IdleEnds, LastScan, Gone, Rescans
<1>. QED
  BY <1>1, <1>2, <1>3, <1>4, <1>5, <1>6, <1>7, <1>8, <1>9 DEF Next, Step, Over, AppStep, StopStep

LEMMA DrainHolds ==
    ASSUME NoHolds, PinsSafe PROVE Spec => [](Inv /\ Parked /\ Drain)
<1>1. Init => Drain
  BY DEF Init, Drain, IdleEnds, LastScan, Gone, Threads
<1>2. Inv /\ Parked /\ Drain /\ [Next]_vars => Drain'
  BY DrainStep
<1>. QED
  BY <1>1, <1>2, InvHolds, PTL DEF Spec

\* With an empty list and nobody in run() nothing is pending.
LEMMA NothingPending ==
    ASSUME Inv, m_fibers = <<>>, \A t \in Threads : Gone(t)
    PROVE  \A j \in Jobs : status[j] \in {"fresh", "finished"}
<1>1. Listed = {}
  BY DEF Listed
<1>2. \A t \in Threads, j \in Jobs : ~Answers(t, j)
  BY DEF Gone, Answers
<1>3. \A j \in Jobs : status[j] \in Statuses
  BY DEF Inv, TypeOK
<1>. QED
  BY <1>1, <1>2, <1>3 DEF Inv, Represented, Statuses

\* Threads that have all left run() left nothing in the list.
LEMMA JoinEmpty ==
    ASSUME PinsSafe, Inv, Drain, caller = "join", \A t \in Threads : Gone(t)
    PROVE  m_fibers = <<>>
<1>1. IdleEnds /\ LastScan
  BY DEF Inv, Drain
<1>2. CASE UseCaller
  BY <1>1, <1>2 DEF IdleEnds
<1>3. CASE ~UseCaller
  <2>1. PICK t \in Threads : TRUE
    BY DEF PinsSafe
  <2>2. \A u \in Threads : pc[u] = "exited" /\ idle_term[u]
    BY <1>1, <1>3 DEF IdleEnds, Threads, Gone
  <2>3. \A u \in Threads : ~Rescans(u)
    BY <2>2 DEF Rescans
  <2>. QED
    BY <1>1, <2>1, <2>2, <2>3 DEF LastScan
<1>. QED
  BY <1>2, <1>3, SchedulerAssumption

\* stop() drains: when the last thread is joined the list is empty and every
\* function that was scheduled has been executed to its end.
THEOREM DrainCorrect ==
    ASSUME NoHolds, PinsSafe PROVE Spec => []DrainedAtJoin
<1>1. Inv /\ Parked /\ Drain => DrainedAtJoin
  BY JoinEmpty, NothingPending DEF DrainedAtJoin
<1>. QED
  BY <1>1, DrainHolds, PTL

-----------------------------------------------------------------------------
(* Scheduler implements TaskPool *)

\* What a step of the scheduler is to a user of the pool.
LEMMA PoolStep ==
    ASSUME NoHolds, PinsSafe, Inv, Parked, Drain, [Next]_vars
    PROVE  Pool!Next \/ UNCHANGED <<status, rounds>>
<1>. USE SchedulerAssumption
<1>0. status \in [Jobs -> Statuses]
  BY DEF Inv, TypeOK
<1>1. ASSUME NEW t \in Threads, RunStep(t), crash = "none"
      PROVE  Pool!Next \/ UNCHANGED <<status, rounds>>
  <2>1. CASE AfterCb(t)
    BY <2>1, Zenon DEF AfterCb, history
  <2>2. CASE Resume(t)
    <3>1. PICK x : x = Cur(t)
      OBVIOUS
    <3>2. pc[t] = "swapIn" /\ Enterable(t, fib[x]) /\ UNCHANGED rounds
      BY <2>2, <3>1 DEF Resume, Inv, Dispatch
    <3>3. PICK j : j = fib[x].job
      OBVIOUS
    <3>4. UNCHANGED status \/ (fib[x].ctx = "fresh" /\ status' = [status EXCEPT ![j] = "begun"])
      BY <2>2, <3>1, <3>3 DEF Resume
    <3>5. ASSUME fib[x].ctx = "fresh", status' = [status EXCEPT ![j] = "begun"]
          PROVE  Pool!Next
      <4>1. j \in Jobs /\ status[j] = "submitted"
        BY <3>2, <3>3, <3>5 DEF Enterable
      <4>2. Pool!Begin(j)
        BY <3>2, <3>5, <4>1 DEF Pool!Begin
      <4>. QED
        BY <4>1, <4>2 DEF Pool!Next
    <3>. QED
      BY <3>2, <3>4, <3>5
  <2>3. CASE RunStep(t) /\ ~AfterCb(t) /\ ~Resume(t)
    BY <2>3 DEF RunStep, TakeTask, FindNothing, DispatchFiber, DispatchCb, Leave,
       AfterFiber, Idle, Exit, history
  <2>. QED
    BY <1>1, <2>1, <2>2, <2>3
<1>2. ASSUME NEW j \in Jobs, status[j] = "fresh", UNCHANGED rounds,
             status' = [status EXCEPT ![j] = "submitted"]
      PROVE  Pool!Next
  <2>1. PICK S \in SUBSET Jobs : S = {j}
    OBVIOUS
  <2>2. Pool!Submit(S)
    BY <1>0, <1>2, <2>1 DEF Pool!Submit
  <2>. QED
    BY <2>2 DEF Pool!Next
<1>3. ASSUME NEW t \in Threads, UserStep(t)
      PROVE  Pool!Next \/ UNCHANGED <<status, rounds>>
  <2>1. ASSUME NEW j \in Jobs, NEW thread \in SpawnPins, UserSchedule(t, j, thread)
        PROVE  Pool!Next
    BY <1>2, <2>1 DEF UserSchedule
  <2>2. CASE YieldToReady(t) \/ Register(t) \/ YieldToHold(t)
    BY <2>2 DEF YieldToReady, Register, YieldToHold, history
  <2>3. ASSUME NEW throws \in BOOLEAN, Finish(t, throws) PROVE Pool!Next
    <3>1. PICK j : j = fib[Cur(t)].job
      OBVIOUS
    <3>2. j \in Jobs /\ status[j] = "begun"
      BY <2>3, <3>1 DEF Finish, Inv, Dispatch
    <3>3. Pool!Complete(j)
      BY <2>3, <3>1, <3>2 DEF Finish, Pool!Complete
    <3>. QED
      BY <3>2, <3>3 DEF Pool!Next
  <2>. QED
    BY <1>3, <2>1, <2>2, <2>3 DEF UserStep
<1>4. ASSUME NEW f \in Jobs, Wake(f) PROVE FALSE
  BY <1>4 DEF Wake, Inv
<1>5. CASE AppStep
  <2>1. CASE Start
    BY <2>1 DEF Start, history
  <2>2. CASE Stop
    <3>1. UNCHANGED status
      BY <2>2 DEF Stop
    <3>2. ASSUME rounds' # rounds PROVE Pool!StopReturn
      <4>1. UseCaller /\ Workers = {} /\ stopping /\ caller = "out" /\ rounds' = rounds + 1
        BY <2>2, <3>2 DEF Stop
      <4>2. m_fibers = <<>> /\ \A t \in Threads : Gone(t)
        BY <4>1 DEF stopping, Parked, Threads
      <4>. QED
        BY <3>1, <4>1, <4>2, NothingPending DEF Pool!StopReturn
    <3>. QED
      BY <3>1, <3>2 DEF Pool!Next
  <2>3. ASSUME NEW j \in Jobs, NEW thread \in AppPins, AppSchedule(j, thread)
        PROVE  Pool!Next
    BY <1>2, <2>3 DEF AppSchedule
  <2>4. ASSUME NEW j \in Jobs, NEW k \in Jobs, AppScheduleBatch(j, k) PROVE Pool!Next
    <3>1. PICK S \in SUBSET Jobs : S = {j, k}
      OBVIOUS
    <3>2. Pool!Submit(S)
      BY <1>0, <2>4, <3>1 DEF Pool!Submit, AppScheduleBatch
    <3>. QED
      BY <3>2 DEF Pool!Next
  <2>. QED
    BY <1>5, <2>1, <2>2, <2>3, <2>4 DEF AppStep
<1>6. CASE StopStep
  <2>1. CASE RootReturn \/ SetStopping
    BY <2>1 DEF RootReturn, SetStopping, history
  <2>2. CASE Join
    <3>1. caller = "join" /\ UNCHANGED status /\ rounds' = rounds + 1
          /\ \A t \in Threads : Gone(t)
      BY <2>2 DEF Join, Parked, Threads
    <3>2. Pool!StopReturn
      BY <3>1, JoinEmpty, NothingPending DEF Pool!StopReturn
    <3>. QED
      BY <3>2 DEF Pool!Next
  <2>. QED
    BY <1>6, <2>1, <2>2 DEF StopStep
<1>7. CASE UNCHANGED vars
  BY <1>7 DEF vars, history
<1>. QED
  BY <1>1, <1>3, <1>4, <1>5, <1>6, <1>7 DEF Next, Step, Over

\* What a user relies on: a function that is scheduled is begun once, after it
\* was scheduled, and stop() returns only when all of them have finished.
THEOREM PoolImplemented ==
    ASSUME NoHolds, PinsSafe PROVE Spec => ImplementsPool
<1>1. Init => Pool!Init
  BY DEF Init, Pool!Init
<1>2. Inv /\ Parked /\ Drain /\ [Next]_vars => [Pool!Next]_(Pool!vars)
  BY PoolStep DEF Pool!vars
<1>. QED
  BY <1>1, <1>2, DrainHolds, PTL DEF Spec, ImplementsPool, Pool!Spec

-----------------------------------------------------------------------------
(***************************************************************************)
(* Functions that hold                                                     *)
(*                                                                         *)
(* A fiber hands itself to whoever will schedule it again before it has    *)
(* saved its context, so that with two threads another one can enter it    *)
(* too early (the run SchedHoldRace).  With one thread it cannot, and then *)
(* run() keeps account of the fibers that hold as well.                    *)
(***************************************************************************)

\* There is one thread, and callbacks do not yield as READY (run() would reset
\* their fiber while it is listed).
HoldsSafe == (\E t : Threads = {t}) /\ "ready" \notin CbOps

\* What the entries of kind k refer to, and the fibers that are listed or that
\* somebody will schedule.
Queued(k) == {m_fibers[i].id : i \in {n \in DOMAIN m_fibers : m_fibers[n].kind = k}}
Referred == Queued("fiber") \cup waiters

\* No two entries refer to the same callback or fiber.
DistinctIds == \A i, k \in DOMAIN m_fibers : i # k => m_fibers[i].id # m_fibers[k].id

\* A user fiber runs its own function, a callback's fiber some callback.
OwnFunction(f) == IF f \in UserFibers THEN fib[f].job = f
                                      ELSE f \in Cbs /\ fib[f].job \in Cbs

\* No fiber will be constructed under the name of f again.
Named(f) == f \in UserFibers \/ status[f] \in {"begun", "finished"}

\* The function of f has begun and waits to be resumed, or is a user fiber
\* that was scheduled and has not been entered.
Suspended(f) ==
    /\ OwnFunction(f) /\ Named(f)
    /\ fib[f].state \in {"HOLD", "READY"} /\ fib[f].ctx = "saved"
    /\ status[fib[f].job] = "begun"

Submitted(f) ==
    /\ f \in UserFibers /\ fib[f].job = f /\ status[f] = "submitted"
    /\ fib[f].state = "INIT" /\ fib[f].ctx = "fresh"

\* Thread t is on a fiber that has handed itself over and not saved its context.
Leaving(t) == pc[t] = "hold" \/ (pc[t] = "yielded" /\ fib[Cur(t)].state = "HOLD")

\* Thread t answers for function j, which nobody else can schedule.
Claims(t, j) ==
    \/ pc[t] = "got" /\ Stands(ft[t], j)
    \/ pc[t] \in {"swapIn", "user"} /\ fib[Cur(t)].job = j
    \/ pc[t] \in {"yielded", "after"} /\ fib[Cur(t)].state = "READY" /\ fib[Cur(t)].job = j

\* The fiber x of thread t while its function has begun and not ended.
Begun(x) == OwnFunction(x) /\ Named(x) /\ status[fib[x].job] = "begun"

\* ... at each place of run().
OnFiber(t) ==
    LET x == Cur(t)
    IN  /\ pc[t] = "swapIn" =>
              \/ ft[t].kind = "fiber" /\ (Suspended(x) \/ Submitted(x))
              \/ /\ ft[t].kind # "fiber" /\ OwnFunction(x) /\ (Named(x) \/ fib[x].job = x)
                 /\ fib[x].state = "INIT" /\ fib[x].ctx = "fresh"
                 /\ status[fib[x].job] = "submitted"
        /\ pc[t] \in {"user", "hold"} =>
              Begun(x) /\ fib[x].state = "EXEC" /\ fib[x].ctx = "live"
        /\ pc[t] = "yielded" => Begun(x) /\ fib[x].state \in {"HOLD", "READY"}
        /\ pc[t] = "ended" => Ended(fib[x])
        /\ pc[t] = "after" => Ended(fib[x]) \/ Suspended(x)
        /\ pc[t] \in {"yielded", "after"} /\ fib[x].state = "READY" => ft[t].kind = "fiber"
        /\ pc[t] = "hold" => x \in Referred
        /\ pc[t] \in {"yielded", "after"} /\ fib[x].state = "HOLD" => x \in Referred

\* What thread t has in ft.
InHand(t) ==
    /\ pc[t] \in {"off", "scan", "none", "exited"} => ft[t] = NoTask
    /\ pc[t] = "got" =>
          \/ ft[t].kind = "cb" /\ ft[t].id \in Cbs /\ status[ft[t].id] = "submitted"
          \/ ft[t].kind = "fiber" /\ (Suspended(ft[t].id) \/ Submitted(ft[t].id))
    /\ Busy(t) => \/ ft[t] = NoTask /\ cb_fiber[t] # NoJob
                  \/ /\ ft[t].kind = "fiber" /\ ft[t].id # cb_fiber[t]
                     /\ ft[t].id \in Jobs /\ Named(ft[t].id)

\* Thread t's cb_fiber can be reset whenever t is not on it.
Spare(t) ==
    cb_fiber[t] # NoJob =>
        /\ cb_fiber[t] \in Cbs
        /\ \/ Named(cb_fiber[t])
           \/ pc[t] = "swapIn" /\ ft[t] = NoTask /\ fib[cb_fiber[t]].job = cb_fiber[t]
        /\ ~Busy(t) \/ ft[t].kind = "fiber" => fib[cb_fiber[t]].state = "INIT"

\* The references: each function has one, or the thread claims it.
RefsOK ==
    /\ DistinctIds
    /\ Queued("fiber") \cap waiters = {}
    /\ \A c \in Queued("cb") : c \in Cbs /\ status[c] = "submitted"
    /\ \A f \in Referred :
           Suspended(f) \/ Submitted(f) \/ \E t \in Threads : Leaving(t) /\ Cur(t) = f
    /\ \A f, g \in Referred : f # g => fib[f].job # fib[g].job

Claimed ==
    /\ \A t \in Threads, j \in Jobs : Claims(t, j) =>
           j \notin Queued("cb") /\ \A f \in Referred : fib[f].job # j
    /\ \A j \in Jobs : status[j] \in {"submitted", "begun"} =>
           \/ j \in Queued("cb")
           \/ \E f \in Referred : fib[f].job = j
           \/ \E t \in Threads : Claims(t, j)
    /\ \A j \in UserFibers : status[j] = "fresh" => fib[j] = NewFiber(j)

HoldInv ==
    /\ TypeOK /\ Dispatched
    /\ RefsOK /\ Claimed
    /\ \A t \in Threads : InHand(t) /\ OnFiber(t) /\ Spare(t)
    /\ crash # "none" => caller = "root"

-----------------------------------------------------------------------------
(* The list again, by the kind of its entries *)

LEMMA QueuedJobs == ASSUME TypeOK, NEW k PROVE Queued(k) \subseteq Jobs
<1>1. \A i \in DOMAIN m_fibers : m_fibers[i] \in Fiber_and_Thread
  BY DEF TypeOK
<1>2. \A e \in Fiber_and_Thread : e.id \in Jobs
  BY DEF Fiber_and_Thread
<1>. QED
  BY <1>1, <1>2 DEF Queued

LEMMA QueuedKinds ==
    ASSUME TypeOK, NEW i \in DOMAIN m_fibers
    PROVE  /\ m_fibers[i].kind \in {"cb", "fiber"}
           /\ m_fibers[i].id \in Queued(m_fibers[i].kind)
<1>1. m_fibers[i] \in Fiber_and_Thread
  BY DEF TypeOK
<1>. QED
  BY <1>1 DEF Fiber_and_Thread, Queued

LEMMA AppendQueued ==
    ASSUME TypeOK, NEW e \in Fiber_and_Thread, m_fibers' = Append(m_fibers, e)
    PROVE  /\ e.kind = "cb" => /\ Queued("cb")' = Queued("cb") \cup {e.id}
                               /\ Queued("fiber")' = Queued("fiber")
           /\ e.kind = "fiber" => /\ Queued("cb")' = Queued("cb")
                                  /\ Queued("fiber")' = Queued("fiber") \cup {e.id}
           /\ DistinctIds /\ e.id \notin Queued("cb") \cup Queued("fiber") => DistinctIds'
<1>. DEFINE n == Len(m_fibers)
<1>1. /\ n \in Nat /\ DOMAIN m_fibers = 1..n /\ DOMAIN m_fibers' = 1..(n + 1)
      /\ \A i \in 1..n : m_fibers'[i] = m_fibers[i]
      /\ m_fibers'[n + 1] = e
  BY DEF TypeOK
<1>2. /\ \A i \in 1..(n + 1) : i \in 1..n \/ i = n + 1
      /\ 1..n \subseteq 1..(n + 1) /\ n + 1 \in 1..(n + 1)
  BY <1>1
<1>. HIDE DEF n
<1>3. ASSUME NEW k
      PROVE  Queued(k)' = IF e.kind = k THEN Queued(k) \cup {e.id} ELSE Queued(k)
  <2>1. \A x \in Queued(k)' : x \in Queued(k) \/ (x = e.id /\ e.kind = k)
    BY <1>1, <1>2 DEF Queued
  <2>2. \A x \in Queued(k) : x \in Queued(k)'
    BY <1>1, <1>2 DEF Queued
  <2>3. e.kind = k => e.id \in Queued(k)'
    BY <1>1, <1>2 DEF Queued
  <2>. QED
    BY <2>1, <2>2, <2>3
<1>4. ASSUME DistinctIds, e.id \notin Queued("cb") \cup Queued("fiber") PROVE DistinctIds'
  <2>1. \A i \in 1..n : m_fibers[i].id # e.id
    BY <1>1, <1>4, QueuedKinds
  <2>. QED
    BY <1>1, <1>2, <1>4, <2>1 DEF DistinctIds
<1>5. /\ Queued("cb")' = IF e.kind = "cb" THEN Queued("cb") \cup {e.id} ELSE Queued("cb")
      /\ Queued("fiber")' = IF e.kind = "fiber" THEN Queued("fiber") \cup {e.id}
                                                ELSE Queued("fiber")
  BY <1>3
<1>. QED
  BY <1>4, <1>5

LEMMA RemoveQueued ==
    ASSUME TypeOK, DistinctIds, NEW i \in DOMAIN m_fibers, m_fibers' = RemoveAt(m_fibers, i)
    PROVE  /\ DistinctIds'
           /\ \A k : Queued(k)' = IF m_fibers[i].kind = k THEN Queued(k) \ {m_fibers[i].id}
                                                          ELSE Queued(k)
<1>. DEFINE n == Len(m_fibers)
            From(k) == IF k < i THEN k ELSE k + 1
<1>1. n \in Nat /\ DOMAIN m_fibers = 1..n /\ i \in 1..n
  BY DEF TypeOK
<1>2. m_fibers' \in Seq(Fiber_and_Thread) /\ Len(m_fibers') = n - 1
  BY <1>1, RemoveAtFacts DEF TypeOK
<1>3. DOMAIN m_fibers' = 1..(n - 1)
  BY <1>2
<1>4. \A k \in 1..(n - 1) : m_fibers'[k] = m_fibers[From(k)]
  BY <1>1, RemoveAtFacts DEF TypeOK
<1>. HIDE DEF n
<1>5. \A k \in 1..(n - 1) : From(k) \in 1..n /\ From(k) # i
  BY <1>1
<1>6. \A k, l \in 1..(n - 1) : k # l => From(k) # From(l)
  BY <1>1
<1>7. \A m \in 1..n : m # i => \E k \in 1..(n - 1) : From(k) = m
  BY <1>1, Preimage
<1>. HIDE DEF From
<1>8. DistinctIds'
  BY <1>1, <1>3, <1>4, <1>5, <1>6 DEF DistinctIds
<1>9. ASSUME NEW k
      PROVE  Queued(k)' = IF m_fibers[i].kind = k THEN Queued(k) \ {m_fibers[i].id}
                                                  ELSE Queued(k)
  <2>1. \A x \in Queued(k)' : x \in Queued(k) /\ x # m_fibers[i].id
    BY <1>1, <1>3, <1>4, <1>5 DEF DistinctIds, Queued
  <2>2. ASSUME NEW x \in Queued(k), x # m_fibers[i].id \/ m_fibers[i].kind # k
        PROVE  x \in Queued(k)'
    <3>1. PICK m \in 1..n : m_fibers[m].id = x /\ m_fibers[m].kind = k
      BY <1>1 DEF Queued
    <3>2. PICK l \in 1..(n - 1) : From(l) = m
      BY <1>7, <2>2, <3>1
    <3>. QED
      BY <1>3, <1>4, <3>1, <3>2 DEF Queued
  <2>. QED
    BY <2>1, <2>2
<1>. QED
  BY <1>8, <1>9

-----------------------------------------------------------------------------
(* What the invariant says of the fibers that are listed or waited for *)

LEMMA ReferredShape ==
    ASSUME HoldInv, NEW t, Threads = {t}, NEW f \in Referred
    PROVE  /\ f \in Jobs /\ OwnFunction(f) /\ Named(f)
           /\ fib[f].job \in Jobs /\ status[fib[f].job] \in {"submitted", "begun"}
           /\ f \in Cbs => status[fib[f].job] = "begun"
           /\ f \in UserFibers => status[f] # "fresh"
           /\ Suspended(f) \/ Submitted(f) \/ (Leaving(t) /\ Cur(t) = f)
<1>. USE SchedulerAssumption
<1>1. f \in Jobs
  BY QueuedJobs DEF HoldInv, TypeOK, Referred
<1>2. Suspended(f) \/ Submitted(f) \/ (Leaving(t) /\ Cur(t) = f)
  BY DEF HoldInv, RefsOK
<1>3. CASE Suspended(f)
  BY <1>1, <1>3 DEF Suspended, OwnFunction, Jobs
<1>4. CASE Submitted(f)
  BY <1>1, <1>4 DEF Submitted, OwnFunction, Named, Jobs
<1>5. CASE Leaving(t) /\ Cur(t) = f
  <2>1. Begun(f)
    BY <1>5 DEF HoldInv, OnFiber, Leaving
  <2>. QED
    BY <1>1, <1>5, <2>1 DEF Begun, OwnFunction, Jobs
<1>. QED
  BY <1>2, <1>3, <1>4, <1>5

\* Nothing refers to a function nobody has scheduled, or to the fiber named
\* after a callback that has not begun.
LEMMA Unreferred ==
    ASSUME HoldInv, NEW t, Threads = {t}, NEW j \in Jobs,
           \/ status[j] = "fresh"
           \/ j \in Cbs /\ status[j] = "submitted"
    PROVE  /\ j \notin Referred
           /\ status[j] = "fresh" => j \notin Queued("cb")
           /\ \A f \in Referred : fib[f].job # j
<1>. USE SchedulerAssumption
<1>1. j \notin Referred
  BY ReferredShape DEF Named, Jobs
<1>2. status[j] = "fresh" => j \notin Queued("cb")
  BY DEF HoldInv, RefsOK
<1>3. ASSUME NEW f \in Referred, fib[f].job = j PROVE FALSE
  BY <1>3, ReferredShape DEF OwnFunction, Jobs
<1>. QED
  BY <1>1, <1>2, <1>3

\* A function the thread claims was scheduled, has not finished, and has no
\* other representative.
LEMMA ClaimShape ==
    ASSUME HoldInv, NEW t, Threads = {t}, NEW j \in Jobs, Claims(t, j)
    PROVE  /\ status[j] \in {"submitted", "begun"}
           /\ j \notin Queued("cb")
           /\ \A f \in Referred : fib[f].job # j
<1>. USE SchedulerAssumption
<1>1. InHand(t) /\ OnFiber(t)
  BY DEF HoldInv
<1>2. status[j] \in {"submitted", "begun"}
  <2>1. CASE pc[t] = "got" /\ Stands(ft[t], j)
    BY <1>1, <2>1 DEF InHand, Stands, Suspended, Submitted
  <2>2. CASE pc[t] \in {"swapIn", "user"} /\ fib[Cur(t)].job = j
    BY <1>1, <2>2 DEF OnFiber, Begun, Suspended, Submitted
  <2>3. CASE /\ pc[t] \in {"yielded", "after"} /\ fib[Cur(t)].state = "READY"
             /\ fib[Cur(t)].job = j
    BY <1>1, <2>3 DEF OnFiber, Begun, Suspended, Ended
  <2>. QED
    BY <2>1, <2>2, <2>3 DEF Claims
<1>. QED
  BY <1>2 DEF HoldInv, Claimed

\* A step that changes at most fiber x and the status of the functions Y, which
\* are new or claimed, ...
Touches(t, x, Y) ==
    /\ \A f \in Jobs \ {x} : fib'[f] = fib[f]
    /\ \A j \in Jobs \ Y : status'[j] = status[j]
    /\ \A y \in Jobs \cap Y :
           \/ status[y] = "fresh" /\ status'[y] = "submitted"
           \/ Claims(t, y) /\ status'[y] \in {"begun", "finished"}
    /\ x \in UserFibers => status[x] # "fresh"

\* ... leaves the other references and names as they were.
LEMMA ReferencesKept ==
    ASSUME HoldInv, NEW t, Threads = {t}, NEW x, NEW Y, Touches(t, x, Y)
    PROVE  /\ \A f \in Referred \ {x} : /\ fib'[f] = fib[f]
                                        /\ status'[fib[f].job] = status[fib[f].job]
                                        /\ Suspended(f) => Suspended(f)'
                                        /\ Submitted(f) => Submitted(f)'
           /\ \A f \in Jobs : Named(f) => Named(f)'
           /\ \A c \in Queued("cb") : c \in Cbs /\ status'[c] = "submitted"
           /\ \A j \in UserFibers : status'[j] = "fresh" => fib'[j] = NewFiber(j)
<1>. USE SchedulerAssumption
<1>1. \A y \in Jobs \cap Y :
          /\ y \notin Queued("cb")
          /\ \A f \in Referred : fib[f].job # y
          /\ status[y] # "finished" /\ status'[y] # "fresh"
          /\ status[y] # "fresh" => status'[y] \in {"begun", "finished"}
  BY ClaimShape, Unreferred DEF Touches
<1>2. \A f \in Jobs : Named(f) => Named(f)'
  BY <1>1 DEF Touches, Named
<1>3. ASSUME NEW f \in Referred \ {x}
      PROVE  /\ fib'[f] = fib[f]
             /\ status'[fib[f].job] = status[fib[f].job]
             /\ Suspended(f) => Suspended(f)'
             /\ Submitted(f) => Submitted(f)'
  <2>1. f \in Jobs /\ fib[f].job \in Jobs /\ Named(f)
    BY ReferredShape
  <2>2. fib'[f] = fib[f] /\ Named(f)'
    BY <1>2, <2>1 DEF Touches
  <2>3. fib[f].job \notin Y
    BY <1>1, <2>1
  <2>4. status'[fib[f].job] = status[fib[f].job]
    BY <2>1, <2>3 DEF Touches
  <2>5. Suspended(f) => Suspended(f)'
    BY <2>2, <2>4 DEF Suspended, OwnFunction
  <2>6. Submitted(f) => Submitted(f)'
    BY <2>2, <2>4 DEF Submitted
  <2>. QED
    BY <2>2, <2>4, <2>5, <2>6
<1>4. \A c \in Queued("cb") : c \in Cbs /\ status'[c] = "submitted"
  BY <1>1 DEF HoldInv, RefsOK, Touches, Jobs
<1>5. ASSUME NEW j \in UserFibers, status'[j] = "fresh" PROVE fib'[j] = NewFiber(j)
  <2>1. j \in Jobs /\ j \notin Y
    BY <1>1, <1>5 DEF Jobs
  <2>2. status[j] = "fresh"
    BY <1>5, <2>1 DEF Touches
  <2>. QED
    BY <2>1, <2>2 DEF Touches, HoldInv, Claimed
<1>. QED
  BY <1>2, <1>3, <1>4, <1>5

\* What is left to show of a step: what the thread has, what the references
\* become, and that every function still has one representative.
LEMMA HoldKeeps ==
    ASSUME HoldInv, TypeOK', Dispatched', NEW t, Threads = {t}, NEW x, NEW Y, Touches(t, x, Y),
           crash' # "none" => caller' = "root",
           InHand(t)', OnFiber(t)', Spare(t)',
           DistinctIds', Queued("fiber")' \cap waiters' = {},
           \A c \in Queued("cb")' : c \in Queued("cb") \/ (c \in Cbs /\ status'[c] = "submitted"),
           \A f \in Referred' :
               \/ f \in Referred \ {x} /\ ~(Leaving(t) /\ Cur(t) = f)
               \/ Suspended(f)' \/ Submitted(f)' \/ (Leaving(t)' /\ Cur(t)' = f),
           \A f \in Referred' :
               \/ f \in Referred /\ fib'[f].job = fib[f].job
               \/ \A g \in Referred' \ {f} : fib'[f].job # fib'[g].job,
           \A j \in Jobs : Claims(t, j)' =>
               j \notin Queued("cb")' /\ \A f \in Referred' : fib'[f].job # j,
           \A j \in Jobs : status'[j] \in {"submitted", "begun"} =>
               \/ j \in Queued("cb")'
               \/ \E f \in Referred' : fib'[f].job = j
               \/ Claims(t, j)'
    PROVE  HoldInv'
<1>1. \A f \in Referred' : Suspended(f)' \/ Submitted(f)' \/ (Leaving(t)' /\ Cur(t)' = f)
  <2>. SUFFICES ASSUME NEW f \in Referred', f \in Referred \ {x}, ~(Leaving(t) /\ Cur(t) = f)
                PROVE  Suspended(f)' \/ Submitted(f)'
    OBVIOUS
  <2>1. Suspended(f) \/ Submitted(f)
    BY ReferredShape
  <2>. QED
    BY <2>1, ReferencesKept
<1>2. \A f, g \in Referred' : f # g => fib'[f].job # fib'[g].job
  BY DEF HoldInv, RefsOK
<1>3. \A c \in Queued("cb")' : c \in Cbs /\ status'[c] = "submitted"
  BY ReferencesKept
<1>4. RefsOK'
  BY <1>1, <1>2, <1>3 DEF RefsOK
<1>5. Claimed'
  <2>1. \A j \in UserFibers : status'[j] = "fresh" => fib'[j] = NewFiber(j)
    BY ReferencesKept
  <2>. QED
    BY <2>1 DEF Claimed, NewFiber
<1>6. \A u \in Threads : InHand(u)' /\ OnFiber(u)' /\ Spare(u)'
  OBVIOUS
<1>. QED
  BY <1>4, <1>5, <1>6 DEF HoldInv

-----------------------------------------------------------------------------
(* The steps of the thread *)

\* A step that changes neither the list nor a function nor a fiber that is
\* referred to, and what t answers for neither.
LEMMA HoldPrivate ==
    ASSUME HoldInv, TypeOK', Dispatched', NEW t, Threads = {t}, NEW x,
           x \notin Referred, x \in UserFibers => status[x] # "fresh",
           \A f \in Jobs \ {x} : fib'[f] = fib[f],
           UNCHANGED <<m_fibers, status, waiters>>,
           crash' # "none" => caller' = "root",
           InHand(t)', OnFiber(t)', Spare(t)',
           Leaving(t) => Leaving(t)' /\ Cur(t)' = Cur(t),
           \A j \in Jobs : Claims(t, j)' <=> Claims(t, j)
    PROVE  HoldInv'
<1>. USE SchedulerAssumption
<1>1. Touches(t, x, {})
  BY DEF Touches, Jobs
<1>2. /\ Queued("cb")' = Queued("cb") /\ Queued("fiber")' = Queued("fiber")
      /\ Referred' = Referred /\ (DistinctIds' <=> DistinctIds)
  BY DEF Queued, Referred, DistinctIds
<1>3. DistinctIds' /\ Queued("fiber")' \cap waiters' = {}
  BY <1>2 DEF HoldInv, RefsOK
<1>4. \A f \in Referred' :
          \/ f \in Referred \ {x} /\ ~(Leaving(t) /\ Cur(t) = f)
          \/ Suspended(f)' \/ Submitted(f)' \/ (Leaving(t)' /\ Cur(t)' = f)
  BY <1>2
<1>5. \A f \in Referred : fib'[f] = fib[f]
  BY ReferredShape
<1>6. \A j \in Jobs : Claims(t, j)' =>
          j \notin Queued("cb")' /\ \A f \in Referred' : fib'[f].job # j
  BY <1>2, <1>5, ClaimShape
<1>7. \A j \in Jobs : status'[j] \in {"submitted", "begun"} =>
          \/ j \in Queued("cb")'
          \/ \E f \in Referred' : fib'[f].job = j
          \/ Claims(t, j)'
  BY <1>2, <1>5 DEF HoldInv, Claimed
<1>. QED
  BY <1>1, <1>2, <1>3, <1>4, <1>5, <1>6, <1>7, HoldKeeps

LEMMA HoldLocal ==
    ASSUME HoldInv, TypeOK', Dispatched', NEW t, Threads = {t},
           UNCHANGED <<fib, m_fibers, status, waiters>>,
           crash' # "none" => caller' = "root",
           InHand(t)', OnFiber(t)', Spare(t)',
           Leaving(t) => Leaving(t)' /\ Cur(t)' = Cur(t),
           \A j \in Jobs : Claims(t, j)' <=> Claims(t, j)
    PROVE  HoldInv'
<1>1. NoJob \notin Referred /\ NoJob \notin UserFibers
  BY ReferredShape, SchedulerAssumption DEF Jobs
<1>. QED
  BY <1>1, HoldPrivate

LEMMA HoldScans ==
    ASSUME HoldInv, TypeOK', Dispatched', NEW t, Threads = {t}, crash = "none",
           FindNothing(t) \/ Idle(t) \/ Exit(t)
    PROVE  HoldInv' /\ crash' = "none"
<1>1. /\ pc[t] \in {"scan", "none"} /\ pc'[t] \in {"scan", "none", "exited"}
      /\ cb_fiber'[t] \in {cb_fiber[t], NoJob}
      /\ UNCHANGED <<fib, m_fibers, status, waiters, crash, caller, ft>>
  BY DEF FindNothing, Idle, Exit, Goto, shared, owner, history, HoldInv, TypeOK
<1>2. ~Busy(t) /\ ~Busy(t)' /\ ~Leaving(t) /\ \A j \in Jobs : ~Claims(t, j) /\ ~Claims(t, j)'
  BY <1>1 DEF Busy, Active, Claims, Leaving
<1>3. InHand(t)' /\ OnFiber(t)'
  BY <1>1, <1>2 DEF HoldInv, InHand, OnFiber
<1>4. Spare(t)'
  BY <1>1, <1>2 DEF HoldInv, Spare, Named
<1>. QED
  BY <1>1, <1>2, <1>3, <1>4, HoldLocal

LEMMA HoldDispatchFiber ==
    ASSUME HoldInv, TypeOK', Dispatched', NEW t, Threads = {t}, crash = "none",
           DispatchFiber(t)
    PROVE  HoldInv' /\ crash' = "none"
<1>. USE SchedulerAssumption
<1>1. PICK x : x = ft[t].id
  OBVIOUS
<1>2. /\ pc[t] = "got" /\ ft[t].kind = "fiber"
      /\ Suspended(x) \/ Submitted(x)
  BY <1>1 DEF DispatchFiber, HoldInv, InHand
<1>3. x \in Jobs /\ OwnFunction(x) /\ Named(x) /\ fib[x].state # "TERM"
  BY <1>2 DEF Suspended, Submitted, OwnFunction, Named, Jobs
<1>4. /\ pc'[t] = "swapIn"
      /\ UNCHANGED <<fib, m_fibers, status, waiters, crash, caller, ft, cb_fiber>>
  BY <1>1, <1>2, <1>3 DEF DispatchFiber, Goto, owner, history, HoldInv, TypeOK
<1>5. ~Busy(t) /\ Busy(t)' /\ Cur(t)' = x /\ ~Leaving(t)
  BY <1>1, <1>2, <1>4 DEF Busy, Active, Cur, Leaving
<1>6. cb_fiber[t] # x
  <2>1. cb_fiber[t] # NoJob => cb_fiber[t] \in Cbs /\ fib[cb_fiber[t]].state = "INIT"
    BY <1>5 DEF HoldInv, Spare
  <2>. QED
    BY <1>2, <1>3, <2>1 DEF Suspended, Submitted, Jobs
<1>7. \A j \in Jobs : Claims(t, j)' <=> Claims(t, j)
  BY <1>1, <1>2, <1>4, <1>5 DEF Claims, Stands
<1>8. InHand(t)'
  BY <1>1, <1>2, <1>3, <1>4, <1>6 DEF InHand, Named
<1>9. OnFiber(t)'
  <2>1. Suspended(x)' \/ Submitted(x)'
    BY <1>2, <1>4 DEF Suspended, Submitted, OwnFunction, Named
  <2>. QED
    BY <1>2, <1>4, <1>5, <2>1 DEF OnFiber
<1>10. Spare(t)'
  BY <1>2, <1>4, <1>5 DEF HoldInv, Spare, Named
<1>. QED
  BY <1>4, <1>5, <1>7, <1>8, <1>9, <1>10, HoldLocal

\* The scan: the entry becomes the thread's claim.
LEMMA HoldTakeTask ==
    ASSUME HoldInv, TypeOK', Dispatched', NEW t, Threads = {t}, crash = "none", TakeTask(t)
    PROVE  HoldInv' /\ crash' = "none"
<1>. USE SchedulerAssumption
<1>0. PICK i \in DOMAIN m_fibers :
          ft' = [ft EXCEPT ![t] = m_fibers[i]] /\ m_fibers' = RemoveAt(m_fibers, i)
  BY DEF TakeTask, Erase
<1>1. PICK e : e = m_fibers[i]
  OBVIOUS
<1>2. /\ pc[t] = "scan" /\ pc'[t] = "got" /\ ft'[t] = e
      /\ UNCHANGED <<fib, status, waiters, crash, caller, cb_fiber>>
  BY <1>0, <1>1 DEF TakeTask, Goto, owner, history, HoldInv, TypeOK
<1>3. ~Busy(t) /\ ~Busy(t)' /\ ~Leaving(t) /\ \A j \in Jobs : ~Claims(t, j)
  BY <1>2 DEF Busy, Active, Leaving, Claims
<1>4. \A j \in Jobs : Claims(t, j)' <=> Stands(e, j)
  BY <1>2 DEF Claims, Stands
<1>5. /\ DistinctIds'
      /\ Queued("cb")' = IF e.kind = "cb" THEN Queued("cb") \ {e.id} ELSE Queued("cb")
      /\ Queued("fiber")' = IF e.kind = "fiber" THEN Queued("fiber") \ {e.id}
                                                ELSE Queued("fiber")
  BY <1>0, <1>1, RemoveQueued DEF HoldInv, RefsOK
<1>6. e.kind \in {"cb", "fiber"} /\ e.id \in Queued(e.kind) /\ e.id \in Jobs
  BY <1>1, QueuedKinds, QueuedJobs DEF HoldInv
<1>7. Queued("fiber") \cap waiters = {}
  BY DEF HoldInv, RefsOK
<1>8. /\ e.kind = "cb" => e.id \in Cbs /\ status[e.id] = "submitted" /\ e.id \in Queued("cb")
                          /\ Referred' = Referred
      /\ e.kind = "fiber" => /\ Suspended(e.id) \/ Submitted(e.id)
                             /\ e.id \in Referred
                             /\ Referred' = Referred \ {e.id}
  <2>1. e.kind = "fiber" => e.id \in Referred
    BY <1>6 DEF Referred
  <2>2. e.id \in Referred => Suspended(e.id) \/ Submitted(e.id)
    BY <1>3, ReferredShape
  <2>3. e.kind = "cb" => Referred' = Referred
    BY <1>2, <1>5 DEF Referred
  <2>4. e.kind = "fiber" => Referred' = Referred \ {e.id}
    BY <1>2, <1>5, <1>6, <1>7 DEF Referred
  <2>. QED
    BY <1>6, <2>1, <2>2, <2>3, <2>4 DEF HoldInv, RefsOK
<1>9. Touches(t, NoJob, {})
  BY <1>2 DEF Touches, Jobs
<1>10. InHand(t)' /\ OnFiber(t)'
  <2>1. e.kind = "fiber" => Suspended(e.id)' \/ Submitted(e.id)'
    BY <1>2, <1>8 DEF Suspended, Submitted, OwnFunction, Named
  <2>. QED
    BY <1>2, <1>3, <1>6, <1>8, <2>1 DEF InHand, OnFiber
<1>11. Spare(t)'
  BY <1>2, <1>3 DEF HoldInv, Spare, Named
<1>12. Queued("fiber")' \cap waiters' = {}
  BY <1>2, <1>5, <1>7
<1>13. /\ \A c \in Queued("cb")' : c \in Queued("cb")
       /\ \A f \in Referred' : f \in Referred \ {NoJob} /\ fib'[f].job = fib[f].job
  BY <1>2, <1>5, <1>6, <1>8, ReferredShape DEF Jobs
<1>14. ASSUME NEW j \in Jobs, Stands(e, j)
       PROVE  j \notin Queued("cb")' /\ \A f \in Referred' : fib'[f].job # j
  <2>1. CASE e.kind = "cb"
    <3>1. j = e.id
      BY <1>14, <2>1 DEF Stands
    <3>2. \A f \in Referred : fib[f].job # j
      BY <1>8, <2>1, <3>1, Unreferred
    <3>. QED
      BY <1>2, <1>5, <1>8, <2>1, <3>1, <3>2
  <2>2. CASE e.kind = "fiber"
    <3>1. j = fib[e.id].job
      BY <1>14, <2>2 DEF Stands
    <3>2. \A f \in Referred \ {e.id} : fib[f].job # j
      BY <1>8, <2>2, <3>1 DEF HoldInv, RefsOK
    <3>3. j \notin Queued("cb")
      BY <1>8, <2>2, <3>1, Unreferred DEF HoldInv, RefsOK
    <3>. QED
      BY <1>2, <1>5, <1>8, <2>2, <3>2, <3>3
  <2>. QED
    BY <1>6, <2>1, <2>2
<1>15. ASSUME NEW j \in Jobs, status'[j] \in {"submitted", "begun"}
       PROVE  \/ j \in Queued("cb")'
              \/ \E f \in Referred' : fib'[f].job = j
              \/ Claims(t, j)'
  <2>1. j \in Queued("cb") \/ \E f \in Referred : fib[f].job = j
    BY <1>2, <1>3, <1>15 DEF HoldInv, Claimed
  <2>2. CASE j \in Queued("cb")
    BY <1>4, <1>5, <2>2 DEF Stands
  <2>3. ASSUME NEW f \in Referred, fib[f].job = j
        PROVE  Claims(t, j)' \/ \E g \in Referred' : fib'[g].job = j
    <3>1. CASE e.kind = "fiber" /\ f = e.id
      BY <1>4, <2>3, <3>1 DEF Stands
    <3>2. CASE ~(e.kind = "fiber" /\ f = e.id)
      BY <1>2, <1>6, <1>8, <2>3, <3>2
    <3>. QED
      BY <3>1, <3>2
  <2>. QED
    BY <2>1, <2>2, <2>3
<1>16. \A j \in Jobs : Claims(t, j)' =>
           j \notin Queued("cb")' /\ \A f \in Referred' : fib'[f].job # j
  BY <1>4, <1>14
<1>. QED
  BY <1>2, <1>3, <1>5, <1>9, <1>10, <1>11, <1>12, <1>13, <1>15, <1>16, HoldKeeps

\* A step on the fiber t is on: if the fiber is referred to it still runs its
\* function and is either still being left or suspended.
LEMMA HoldFiberStep ==
    ASSUME HoldInv, TypeOK', Dispatched', NEW t, Threads = {t}, NEW y, crash = "none",
           Busy(t), Busy(t)', ~(pc'[t] = "swapIn"),
           \A f \in Jobs \ {Cur(t)} : fib'[f] = fib[f],
           UNCHANGED <<m_fibers, ft, cb_fiber, waiters, crash, caller>>,
           \A j \in Jobs \ {y} : status'[j] = status[j],
           y \in Jobs => Claims(t, y) /\ status'[y] \in {"begun", "finished"},
           pc[t] = "swapIn" => Named(Cur(t))',
           Cur(t) \in Referred => /\ fib'[Cur(t)].job = fib[Cur(t)].job
                                  /\ Leaving(t)' \/ Suspended(Cur(t))',
           OnFiber(t)',
           \A j \in Jobs : Claims(t, j)' => Claims(t, j),
           \A j \in Jobs : Claims(t, j) =>
               Claims(t, j)' \/ status'[j] \notin {"submitted", "begun"}
    PROVE  HoldInv' /\ crash' = "none"
<1>. USE SchedulerAssumption
<1>1. PICK x : x = Cur(t)
  OBVIOUS
<1>2. Cur(t)' = x /\ x \in Jobs
  BY <1>1 DEF Cur, HoldInv, Dispatched, Busy
<1>3. /\ Queued("cb")' = Queued("cb") /\ Queued("fiber")' = Queued("fiber")
      /\ Referred' = Referred /\ (DistinctIds' <=> DistinctIds)
  BY DEF Queued, Referred, DistinctIds
<1>4. DistinctIds' /\ Queued("fiber")' \cap waiters' = {}
  BY <1>3 DEF HoldInv, RefsOK
<1>5. x \in UserFibers => status[x] # "fresh"
  <2>1. ASSUME x \in UserFibers, status[x] = "fresh" PROVE FALSE
    <3>1. fib[x] = NewFiber(x)
      BY <2>1 DEF HoldInv, Claimed
    <3>2. fib[x].state = "INIT" /\ fib[x].job = x
      BY <3>1 DEF NewFiber
    <3>3. OnFiber(t)
      BY DEF HoldInv
    <3>. QED
      BY <1>1, <2>1, <3>2, <3>3 DEF OnFiber, Busy, Active, Begun, Ended, Suspended, Submitted
  <2>. QED
    BY <2>1
<1>6. Touches(t, x, {y})
  BY <1>1, <1>5 DEF Touches
<1>7. \A f \in Jobs : Named(f) => Named(f)'
  BY <1>6, ReferencesKept
<1>8. InHand(t)'
  BY <1>2, <1>7 DEF HoldInv, InHand, Busy, Active
<1>9. Spare(t)'
  <2>. SUFFICES ASSUME cb_fiber[t] # NoJob PROVE Spare(t)'
    BY DEF Spare
  <2>1. Spare(t) /\ cb_fiber[t] \in Cbs /\ cb_fiber[t] \in Jobs
    BY DEF HoldInv, Spare, Jobs
  <2>2. ft[t].kind = "fiber" => cb_fiber[t] # x
    BY <1>1 DEF HoldInv, InHand, NoTask, Cur
  <2>3. ft[t].kind = "fiber" => fib'[cb_fiber[t]] = fib[cb_fiber[t]]
    BY <1>1, <2>1, <2>2
  <2>4. Named(cb_fiber[t])'
    <3>1. CASE Named(cb_fiber[t])
      BY <1>7, <2>1, <3>1 DEF Named
    <3>2. CASE ~Named(cb_fiber[t])
      BY <2>1, <3>2 DEF Spare, Cur, NoTask, Named
    <3>. QED
      BY <3>1, <3>2
  <2>. QED
    BY <2>1, <2>3, <2>4 DEF Spare, Named
<1>10. \A f \in Referred' :
           \/ f \in Referred \ {x} /\ ~(Leaving(t) /\ Cur(t) = f)
           \/ Suspended(f)' \/ Submitted(f)' \/ (Leaving(t)' /\ Cur(t)' = f)
  BY <1>1, <1>2, <1>3
<1>11. \A f \in Referred' : f \in Referred /\ fib'[f].job = fib[f].job
  BY <1>1, <1>3, ReferredShape
<1>12. \A j \in Jobs : Claims(t, j)' =>
           j \notin Queued("cb")' /\ \A f \in Referred' : fib'[f].job # j
  BY <1>3, <1>11, ClaimShape
<1>13. ASSUME NEW j \in Jobs, status'[j] \in {"submitted", "begun"}
       PROVE  \/ j \in Queued("cb")'
              \/ \E f \in Referred' : fib'[f].job = j
              \/ Claims(t, j)'
  <2>1. status[j] \in {"submitted", "begun"}
    BY <1>13, ClaimShape
  <2>. QED
    BY <1>3, <1>11, <1>13, <2>1 DEF HoldInv, Claimed
<1>. QED
  BY <1>3, <1>4, <1>6, <1>8, <1>9, <1>10, <1>11, <1>12, <1>13, HoldKeeps

\* swapIn: what it finds never fails one of its assertions.
LEMMA HoldResume ==
    ASSUME HoldInv, TypeOK', Dispatched', NEW t, Threads = {t}, crash = "none", Resume(t)
    PROVE  HoldInv' /\ crash' = "none"
<1>. USE SchedulerAssumption
<1>1. PICK x : x = Cur(t)
  OBVIOUS
<1>2. PICK y : y = IF fib[x].ctx = "fresh" THEN fib[x].job ELSE NoJob
  OBVIOUS
<1>3. pc[t] = "swapIn" /\ Busy(t) /\ x \in Jobs /\ OnFiber(t)
  BY <1>1 DEF Resume, Busy, Active, HoldInv, Dispatched
<1>4. /\ OwnFunction(x) /\ (Named(x) \/ (fib[x].job = x /\ fib[x].ctx = "fresh"))
      /\ fib[x].job \in Jobs /\ status[fib[x].job] \in {"submitted", "begun"}
      /\ fib[x].state # "EXEC" /\ fib[x].ctx \in {"fresh", "saved"}
      /\ fib[x].ctx # "fresh" => status[fib[x].job] = "begun"
  BY <1>1, <1>3 DEF OnFiber, Suspended, Submitted, OwnFunction, Named, Jobs
<1>5. SwapInFault(fib[x]) = "none"
  BY <1>4 DEF SwapInFault
<1>6. /\ fib' = [fib EXCEPT ![x] = SwapIn(@)]
      /\ pc' = [pc EXCEPT ![t] = "user"]
      /\ status' = IF fib[x].ctx = "fresh" THEN [status EXCEPT ![fib[x].job] = "begun"] ELSE status
      /\ crash' = "none"
      /\ UNCHANGED <<m_fibers, ft, cb_fiber, waiters, caller>>
  BY <1>1, <1>5 DEF Resume, Goto, owner
<1>7. /\ pc'[t] = "user" /\ \A f \in Jobs \ {x} : fib'[f] = fib[f]
      /\ fib'[x].state = "EXEC" /\ fib'[x].ctx = "live" /\ fib'[x].job = fib[x].job
  BY <1>3, <1>6 DEF SwapIn, HoldInv, TypeOK, FiberType
<1>8. /\ \A j \in Jobs \ {y} : status'[j] = status[j]
      /\ y \in Jobs => y = fib[x].job /\ status'[y] = "begun"
      /\ status'[fib[x].job] = "begun"
  BY <1>2, <1>4, <1>6 DEF HoldInv, TypeOK, Jobs
<1>9. Busy(t)' /\ Cur(t)' = x
  BY <1>1, <1>6, <1>7 DEF Busy, Active, Cur
<1>10. \A j \in Jobs : Claims(t, j)' <=> Claims(t, j)
  BY <1>1, <1>3, <1>7, <1>9 DEF Claims
<1>11. Claims(t, fib[x].job)
  BY <1>1, <1>3 DEF Claims
<1>12. Named(x)'
  BY <1>4, <1>3, <1>8 DEF Named
<1>13. OnFiber(t)'
  BY <1>4, <1>7, <1>8, <1>9, <1>12 DEF OnFiber, Begun, OwnFunction
<1>14. x \notin Referred
  BY <1>4, <1>11, ClaimShape
<1>15. UNCHANGED crash
  BY <1>6
<1>. QED
  BY <1>1, <1>3, <1>6, <1>7, <1>8, <1>9, <1>10, <1>11, <1>12, <1>13, <1>14, <1>15, HoldFiberStep

\* The fiber of the running function.
LEMMA HoldUser ==
    ASSUME HoldInv, NEW t, Threads = {t}, pc[t] \in {"user", "hold"}
    PROVE  /\ Busy(t) /\ Cur(t) \in Jobs /\ Begun(Cur(t)) /\ fib[Cur(t)].job \in Jobs
           /\ fib[Cur(t)].state = "EXEC"
           /\ fib[Cur(t)] \in FiberType(Jobs \cup {NoJob})
           /\ pc[t] = "user" => Claims(t, fib[Cur(t)].job) /\ Cur(t) \notin Referred
           /\ pc[t] = "hold" => Cur(t) \in Referred
           /\ ft[t].kind # "fiber" => fib[Cur(t)].job \in Cbs /\ Cur(t) \in Cbs
<1>. USE SchedulerAssumption
<1>1. Busy(t) /\ Cur(t) \in Jobs /\ Begun(Cur(t)) /\ fib[Cur(t)].state = "EXEC"
  BY DEF HoldInv, OnFiber, Busy, Active, Dispatched
<1>2. fib[Cur(t)].job \in Jobs /\ fib[Cur(t)] \in FiberType(Jobs \cup {NoJob})
  BY <1>1 DEF Begun, OwnFunction, HoldInv, TypeOK, Jobs
<1>3. ASSUME pc[t] = "user" PROVE Claims(t, fib[Cur(t)].job) /\ Cur(t) \notin Referred
  <2>1. Claims(t, fib[Cur(t)].job)
    BY <1>3 DEF Claims
  <2>. QED
    BY <1>2, <2>1, ClaimShape
<1>4. pc[t] = "hold" => Cur(t) \in Referred
  BY DEF HoldInv, OnFiber
<1>5. ASSUME ft[t].kind # "fiber" PROVE fib[Cur(t)].job \in Cbs /\ Cur(t) \in Cbs
  <2>1. Cur(t) \in Cbs
    BY <1>1, <1>5 DEF Cur, HoldInv, InHand, Spare
  <2>. QED
    BY <1>1, <2>1 DEF Begun, OwnFunction
<1>. QED
  BY <1>1, <1>2, <1>3, <1>4, <1>5

LEMMA HoldYields ==
    ASSUME HoldsSafe, HoldInv, TypeOK', Dispatched', NEW t, Threads = {t}, crash = "none",
           YieldToReady(t) \/ YieldToHold(t)
    PROVE  HoldInv' /\ crash' = "none"
<1>. USE SchedulerAssumption
<1>1. PICK x : x = Cur(t)
  OBVIOUS
<1>2. PICK s : s = IF pc[t] = "user" THEN "READY" ELSE "HOLD"
  OBVIOUS
<1>3. /\ pc[t] \in {"user", "hold"}
      /\ fib' = [fib EXCEPT ![x] = SetState(@, s)]
      /\ pc' = [pc EXCEPT ![t] = "yielded"]
      /\ UNCHANGED <<m_fibers, ft, cb_fiber, waiters, caller, crash, status>>
  BY <1>1, <1>2 DEF YieldToReady, YieldToHold, Goto, owner, history
<1>4. /\ Busy(t) /\ x \in Jobs /\ Begun(x) /\ fib[x].job \in Jobs
      /\ fib[x] \in FiberType(Jobs \cup {NoJob})
      /\ pc[t] = "user" => Claims(t, fib[x].job) /\ x \notin Referred
      /\ pc[t] = "hold" => x \in Referred
  BY <1>1, <1>3, HoldUser
<1>5. pc[t] = "user" => ft[t].kind = "fiber"
  BY <1>1, <1>3, HoldUser DEF YieldToReady, YieldToHold, HoldsSafe, OpsOf
<1>6. /\ pc'[t] = "yielded" /\ \A f \in Jobs \ {x} : fib'[f] = fib[f]
      /\ fib'[x].state = s /\ fib'[x].job = fib[x].job
  BY <1>3, <1>4 DEF SetState, HoldInv, TypeOK, FiberType
<1>7. Busy(t)' /\ Cur(t)' = x
  BY <1>1, <1>3, <1>6 DEF Busy, Active, Cur
<1>8. \A j \in Jobs : Claims(t, j)' <=> Claims(t, j)
  BY <1>1, <1>2, <1>3, <1>6, <1>7 DEF Claims
<1>9. Referred' = Referred
  BY <1>3 DEF Referred, Queued
<1>10. Begun(x)'
  BY <1>3, <1>4, <1>6 DEF Begun, OwnFunction, Named
<1>11. OnFiber(t)'
  BY <1>2, <1>3, <1>4, <1>5, <1>6, <1>7, <1>9, <1>10 DEF OnFiber
<1>12. x \in Referred => Leaving(t)'
  BY <1>2, <1>3, <1>4, <1>6, <1>7 DEF Leaving
<1>13. NoJob \notin Jobs
  BY DEF Jobs
<1>. QED
  BY <1>1, <1>3, <1>4, <1>6, <1>7, <1>8, <1>11, <1>12, <1>13, HoldFiberStep

LEMMA HoldFinish ==
    ASSUME HoldInv, TypeOK', Dispatched', NEW t, Threads = {t}, crash = "none",
           NEW throws \in BOOLEAN, Finish(t, throws)
    PROVE  HoldInv' /\ crash' = "none"
<1>. USE SchedulerAssumption
<1>1. PICK x : x = Cur(t)
  OBVIOUS
<1>2. PICK y : y = fib[x].job
  OBVIOUS
<1>3. /\ pc[t] = "user" /\ Busy(t) /\ x \in Jobs /\ y \in Jobs
      /\ fib[x] \in FiberType(Jobs \cup {NoJob})
      /\ Claims(t, y) /\ x \notin Referred
  BY <1>1, <1>2, HoldUser DEF Finish
<1>4. /\ fib' = [fib EXCEPT ![x] = MainFuncEnds(@, throws, NoJob)]
      /\ pc' = [pc EXCEPT ![t] = "ended"]
      /\ status' = [status EXCEPT ![y] = "finished"]
      /\ UNCHANGED <<m_fibers, ft, cb_fiber, waiters, caller, crash>>
  BY <1>1, <1>2 DEF Finish, Goto, owner
<1>5. /\ pc'[t] = "ended" /\ \A f \in Jobs \ {x} : fib'[f] = fib[f]
      /\ status'[y] = "finished" /\ \A j \in Jobs \ {y} : status'[j] = status[j]
  BY <1>3, <1>4 DEF HoldInv, TypeOK
<1>6. fib'[x].state \in {"TERM", "EXCPT"} /\ fib'[x].job \in {y, NoJob}
  <2>1. fib'[x] = MainFuncEnds(fib[x], throws, NoJob)
    BY <1>3, <1>4 DEF HoldInv, TypeOK
  <2>. QED
    BY <1>2, <1>3, <2>1 DEF MainFuncEnds, FiberType
<1>7. Busy(t)' /\ Cur(t)' = x
  BY <1>1, <1>4, <1>5 DEF Busy, Active, Cur
<1>8. \A j \in Jobs : ~Claims(t, j)' /\ (Claims(t, j) => j = y)
  BY <1>1, <1>2, <1>3, <1>5 DEF Claims
<1>9. OnFiber(t)'
  BY <1>5, <1>6, <1>7, SchedulerAssumption DEF OnFiber, Ended, Jobs
<1>. QED
  BY <1>1, <1>3, <1>4, <1>5, <1>7, <1>8, <1>9, HoldFiberStep

\* swapOut: the context is saved, and the fiber can be resumed.
LEMMA HoldLeave ==
    ASSUME HoldInv, TypeOK', Dispatched', NEW t, Threads = {t}, crash = "none", Leave(t)
    PROVE  HoldInv' /\ crash' = "none"
<1>. USE SchedulerAssumption
<1>1. PICK x : x = Cur(t)
  OBVIOUS
<1>2. /\ pc[t] \in {"yielded", "ended"} /\ Busy(t) /\ x \in Jobs /\ OnFiber(t)
      /\ fib[x] \in FiberType(Jobs \cup {NoJob})
  BY <1>1 DEF Leave, Busy, Active, HoldInv, Dispatched, TypeOK
<1>3. /\ fib' = [fib EXCEPT ![x] = SwapOut(@, pc[t] = "ended")]
      /\ pc' = [pc EXCEPT ![t] = "after"]
      /\ UNCHANGED <<m_fibers, ft, cb_fiber, waiters, caller, crash, status>>
  BY <1>1 DEF Leave, Goto, owner, history
<1>4. fib'[x] = SwapOut(fib[x], pc[t] = "ended")
  BY <1>2, <1>3 DEF HoldInv, TypeOK
<1>5. /\ pc'[t] = "after" /\ \A f \in Jobs \ {x} : fib'[f] = fib[f]
      /\ fib'[x].state = fib[x].state /\ fib'[x].job = fib[x].job
      /\ pc[t] = "yielded" => fib'[x].ctx = "saved"
  BY <1>2, <1>3, <1>4 DEF SwapOut, HoldInv, TypeOK, FiberType
<1>6. Busy(t)' /\ Cur(t)' = x
  BY <1>1, <1>3, <1>5 DEF Busy, Cur
<1>7. pc[t] = "ended" => Ended(fib[x]) /\ fib[x].state # "READY"
  BY <1>1, <1>2 DEF OnFiber, Ended
<1>8. \A j \in Jobs : Claims(t, j)' <=> Claims(t, j)
  BY <1>1, <1>2, <1>5, <1>6, <1>7 DEF Claims
<1>9. Referred' = Referred
  BY <1>3 DEF Referred, Queued
<1>10. pc[t] = "yielded" => Suspended(x)'
  BY <1>1, <1>2, <1>3, <1>5 DEF OnFiber, Begun, Suspended, OwnFunction, Named
<1>11. pc[t] = "ended" => Ended(fib[x])'
  BY <1>2, <1>3, <1>5, <1>7 DEF Ended
<1>12. OnFiber(t)'
  BY <1>1, <1>2, <1>3, <1>5, <1>6, <1>7, <1>9, <1>10, <1>11 DEF OnFiber, Ended
<1>13. pc[t] = "ended" => x \notin Referred
  <2>1. ASSUME pc[t] = "ended", x \in Referred PROVE FALSE
    <3>1. status[fib[x].job] \in {"submitted", "begun"} /\ fib[x].job \in Jobs
      BY <2>1, ReferredShape
    <3>. QED
      BY <1>7, <2>1, <3>1 DEF Ended
  <2>. QED
    BY <2>1
<1>14. NoJob \notin Jobs
  BY DEF Jobs
<1>. QED
  BY <1>1, <1>2, <1>3, <1>5, <1>6, <1>8, <1>10, <1>12, <1>13, <1>14, HoldFiberStep

\* The fiber hands itself over: the thread's claim becomes a reference.
LEMMA HoldRegister ==
    ASSUME HoldInv, TypeOK', Dispatched', NEW t, Threads = {t}, crash = "none", Register(t)
    PROVE  HoldInv' /\ crash' = "none"
<1>. USE SchedulerAssumption
<1>1. PICK x : x = Cur(t)
  OBVIOUS
<1>2. /\ pc[t] = "user" /\ Busy(t) /\ x \in Jobs /\ Begun(x) /\ fib[x].job \in Jobs
      /\ Claims(t, fib[x].job) /\ x \notin Referred /\ OnFiber(t)
  BY <1>1, HoldUser DEF Register, HoldInv
<1>3. /\ waiters' = waiters \cup {x} /\ pc' = [pc EXCEPT ![t] = "hold"] /\ pc'[t] = "hold"
      /\ UNCHANGED <<fib, m_fibers, ft, cb_fiber, status, caller, crash>>
  BY <1>1 DEF Register, Goto, owner, HoldInv, TypeOK
<1>4. Busy(t)' /\ Cur(t)' = x /\ Leaving(t)' /\ ~Leaving(t)
  BY <1>1, <1>2, <1>3 DEF Busy, Active, Cur, Leaving
<1>5. /\ Queued("cb")' = Queued("cb") /\ Queued("fiber")' = Queued("fiber")
      /\ Referred' = Referred \cup {x} /\ (DistinctIds' <=> DistinctIds)
  BY <1>3 DEF Queued, Referred, DistinctIds
<1>6. DistinctIds' /\ Queued("fiber")' \cap waiters' = {}
  <2>1. x \notin Queued("fiber")
    BY <1>2 DEF Referred
  <2>. QED
    BY <1>3, <1>5, <2>1 DEF HoldInv, RefsOK
<1>7. \A j \in Jobs : ~Claims(t, j)' /\ (Claims(t, j) => j = fib[x].job)
  BY <1>1, <1>2, <1>3 DEF Claims
<1>8. Touches(t, NoJob, {})
  BY <1>3 DEF Touches, Jobs
<1>9. InHand(t)'
  BY <1>2, <1>3 DEF HoldInv, InHand, Busy, Active, Named
<1>10. OnFiber(t)'
  BY <1>1, <1>2, <1>3, <1>4, <1>5 DEF OnFiber, Begun, OwnFunction, Named
<1>11. Spare(t)'
  BY <1>2, <1>3, <1>4 DEF HoldInv, Spare, Named
<1>12. \A g \in Referred : fib[g].job # fib[x].job /\ g # NoJob
  <2>1. \A g \in Referred : fib[g].job # fib[x].job
    BY <1>2, ClaimShape
  <2>2. \A g \in Referred : g \in Jobs
    BY ReferredShape, Zenon
  <2>. QED
    BY <2>1, <2>2 DEF Jobs
<1>13. \A f \in Referred' :
           \/ f \in Referred \ {NoJob} /\ ~(Leaving(t) /\ Cur(t) = f)
           \/ Leaving(t)' /\ Cur(t)' = f
  BY <1>4, <1>5, <1>12
<1>14. \A f \in Referred' :
           \/ f \in Referred /\ fib'[f].job = fib[f].job
           \/ \A g \in Referred' \ {f} : fib'[f].job # fib'[g].job
  BY <1>3, <1>5, <1>12
<1>15. ASSUME NEW j \in Jobs, status'[j] \in {"submitted", "begun"}
       PROVE  \/ j \in Queued("cb")'
              \/ \E f \in Referred' : fib'[f].job = j
              \/ Claims(t, j)'
  <2>1. j \in Queued("cb") \/ (\E f \in Referred : fib[f].job = j) \/ Claims(t, j)
    BY <1>3, <1>15 DEF HoldInv, Claimed
  <2>. QED
    BY <1>3, <1>5, <1>7, <2>1
<1>. QED
  BY <1>3, <1>5, <1>6, <1>7, <1>8, <1>9, <1>10, <1>11, <1>13, <1>14, <1>15, HoldKeeps

\* The one it handed itself to schedules it.
LEMMA HoldWake ==
    ASSUME HoldInv, TypeOK', Dispatched', NEW t, Threads = {t}, crash = "none",
           NEW x \in Jobs, Wake(x)
    PROVE  HoldInv' /\ crash' = "none"
<1>. USE SchedulerAssumption
<1>1. /\ x \in waiters /\ waiters' = waiters \ {x}
      /\ m_fibers' = Append(m_fibers, FiberEntry(x))
      /\ UNCHANGED <<fib, pc, ft, cb_fiber, status, caller, crash>>
  BY DEF Wake, Schedule, locals, owner, history
<1>2. x \in Referred /\ x \notin Queued("fiber") /\ Queued("fiber") \cap waiters = {}
  BY <1>1 DEF Referred, HoldInv, RefsOK
<1>3. x \notin Queued("cb")
  BY <1>2, ReferredShape DEF HoldInv, RefsOK, Named
<1>4. /\ FiberEntry(x) \in Fiber_and_Thread
      /\ FiberEntry(x).kind = "fiber" /\ FiberEntry(x).id = x
  BY DEF FiberEntry, Fiber_and_Thread
<1>5. /\ Queued("cb")' = Queued("cb") /\ Queued("fiber")' = Queued("fiber") \cup {x}
      /\ DistinctIds'
  BY <1>1, <1>2, <1>3, <1>4, AppendQueued DEF HoldInv, RefsOK
<1>6. Referred' = Referred /\ Queued("fiber")' \cap waiters' = {}
  BY <1>1, <1>2, <1>5 DEF Referred
<1>7. Touches(t, NoJob, {})
  BY <1>1 DEF Touches, Jobs
<1>8. /\ Cur(t)' = Cur(t) /\ (Busy(t)' <=> Busy(t)) /\ (Leaving(t)' <=> Leaving(t))
      /\ \A j \in Jobs : Claims(t, j)' <=> Claims(t, j)
  BY <1>1 DEF Cur, Busy, Active, Leaving, Claims, Stands
<1>10. InHand(t)'
  BY <1>1, <1>8 DEF HoldInv, InHand, Suspended, Submitted, OwnFunction, Named
<1>11. OnFiber(t)'
  <2>1. OnFiber(t)
    BY DEF HoldInv
  <2>. QED
    BY <1>1, <1>6, <1>8, <2>1 DEF OnFiber, Begun, Ended, Suspended, Submitted, OwnFunction, Named
<1>12. Spare(t)'
  BY <1>1, <1>8 DEF HoldInv, Spare, Named
<1>13. \A f \in Referred' :
           \/ f \in Referred \ {NoJob} /\ ~(Leaving(t) /\ Cur(t) = f)
           \/ Leaving(t)' /\ Cur(t)' = f
  BY <1>6, <1>8, ReferredShape DEF Jobs
<1>14. \A j \in Jobs : Claims(t, j)' =>
           j \notin Queued("cb")' /\ \A f \in Referred' : fib'[f].job # j
  BY <1>1, <1>5, <1>6, <1>8, ClaimShape
<1>15. \A j \in Jobs : status'[j] \in {"submitted", "begun"} =>
           \/ j \in Queued("cb")'
           \/ \E f \in Referred' : fib'[f].job = j
           \/ Claims(t, j)'
  BY <1>1, <1>5, <1>6, <1>8 DEF HoldInv, Claimed
<1>. QED
  BY <1>1, <1>5, <1>6, <1>7, <1>10, <1>11, <1>12, <1>13, <1>14, <1>15, HoldKeeps

\* A callback gets the thread's spare fiber, or a new one.
LEMMA HoldDispatchCb ==
    ASSUME HoldInv, TypeOK', Dispatched', NEW t, Threads = {t}, crash = "none", DispatchCb(t)
    PROVE  HoldInv' /\ crash' = "none"
<1>. USE SchedulerAssumption
<1>1. PICK j : j = ft[t].id
  OBVIOUS
<1>2. PICK x : x = IF cb_fiber[t] = NoJob THEN j ELSE cb_fiber[t]
  OBVIOUS
<1>3. /\ pc[t] = "got" /\ ft[t].kind = "cb" /\ ~Busy(t) /\ ~Leaving(t)
      /\ j \in Cbs /\ j \in Jobs /\ status[j] = "submitted"
      /\ \A i \in Jobs : Claims(t, i) <=> i = j
  <2>1. pc[t] = "got" /\ ft[t].kind = "cb" /\ InHand(t)
    BY DEF DispatchCb, HoldInv
  <2>. QED
    BY <1>1, <2>1 DEF InHand, Busy, Active, Leaving, Claims, Stands, Jobs
<1>4. /\ x \in Cbs /\ x \in Jobs /\ x \notin UserFibers
      /\ cb_fiber[t] # NoJob => fib[x].state = "INIT" /\ Named(x)
      /\ Named(x) \/ x = j
  BY <1>2, <1>3 DEF HoldInv, Spare, Jobs
<1>5. cb_fiber[t] # NoJob => CanReset(fib[x])
  BY <1>4 DEF CanReset
<1>6. /\ fib' = [fib EXCEPT ![x] = IF cb_fiber[t] = NoJob THEN NewFiber(j) ELSE Reset(@, j)]
      /\ cb_fiber' = [cb_fiber EXCEPT ![t] = x]
      /\ ft' = [ft EXCEPT ![t] = NoTask]
      /\ pc' = [pc EXCEPT ![t] = "swapIn"]
      /\ crash' = "none"
      /\ UNCHANGED <<m_fibers, waiters, caller, status>>
  BY <1>1, <1>2, <1>5 DEF DispatchCb, Goto, owner
<1>7. /\ pc'[t] = "swapIn" /\ ft'[t] = NoTask /\ cb_fiber'[t] = x
      /\ \A f \in Jobs \ {x} : fib'[f] = fib[f]
  BY <1>4, <1>6 DEF HoldInv, TypeOK
<1>8. fib'[x].state = "INIT" /\ fib'[x].ctx = "fresh" /\ fib'[x].job = j
  <2>1. fib'[x] = (IF cb_fiber[t] = NoJob THEN NewFiber(j) ELSE Reset(fib[x], j))
        /\ fib[x] \in FiberType(Jobs \cup {NoJob})
    BY <1>4, <1>6 DEF HoldInv, TypeOK
  <2>. QED
    BY <2>1 DEF NewFiber, Reset, FiberType
<1>9. x \notin Referred
  <2>1. CASE cb_fiber[t] = NoJob
    BY <1>2, <1>3, <2>1, Unreferred
  <2>2. CASE cb_fiber[t] # NoJob
    BY <1>3, <1>4, <2>2, ReferredShape DEF Suspended, Submitted
  <2>. QED
    BY <2>1, <2>2
<1>10. Busy(t)' /\ Cur(t)' = x
  BY <1>7 DEF Busy, Active, Cur, NoTask
<1>11. \A i \in Jobs : Claims(t, i)' <=> Claims(t, i)
  BY <1>3, <1>7, <1>8, <1>10 DEF Claims
<1>12. Named(x)' <=> Named(x)
  BY <1>6 DEF Named
<1>13. InHand(t)' /\ Spare(t)'
  BY <1>4, <1>7, <1>8, <1>10, <1>12 DEF InHand, Spare, NoTask, Jobs, Named
<1>14. OnFiber(t)'
  <2>1. OwnFunction(x)'
    BY <1>3, <1>4, <1>8 DEF OwnFunction
  <2>. QED
    BY <1>3, <1>4, <1>6, <1>7, <1>8, <1>10, <1>12, <2>1 DEF OnFiber, NoTask, OwnFunction, Named
<1>. QED
  BY <1>3, <1>4, <1>6, <1>7, <1>9, <1>11, <1>13, <1>14, HoldPrivate

\* The thread is back from fiber x.
LEMMA HoldBack ==
    ASSUME HoldInv, NEW t, Threads = {t}, pc[t] = "after", NEW x, x = Cur(t)
    PROVE  /\ Busy(t) /\ x \in Jobs /\ ~Leaving(t)
           /\ fib[x] \in FiberType(Jobs \cup {NoJob})
           /\ \/ Ended(fib[x]) /\ x \notin Referred /\ \A j \in Jobs : ~Claims(t, j)
              \/ /\ Suspended(x) /\ fib[x].state = "HOLD" /\ x \in Referred
                 /\ \A j \in Jobs : ~Claims(t, j)
              \/ /\ Suspended(x) /\ fib[x].state = "READY" /\ ft[t].kind = "fiber"
                 /\ fib[x].job \in Jobs /\ x \notin Referred
                 /\ \A j \in Jobs : Claims(t, j) <=> j = fib[x].job
           /\ x \in UserFibers => status[x] # "fresh"
<1>. USE SchedulerAssumption
<1>1. Busy(t) /\ x \in Jobs /\ ~Leaving(t) /\ fib[x] \in FiberType(Jobs \cup {NoJob}) /\ OnFiber(t)
  BY DEF Busy, Leaving, HoldInv, Dispatched, TypeOK
<1>2. \A j \in Jobs : Claims(t, j) <=> fib[x].state = "READY" /\ fib[x].job = j
  BY DEF Claims
<1>3. Ended(fib[x]) \/ Suspended(x)
  BY <1>1 DEF OnFiber
<1>4. ASSUME Ended(fib[x])
      PROVE  /\ x \notin Referred /\ \A j \in Jobs : ~Claims(t, j)
             /\ x \in UserFibers => status[x] # "fresh"
  <2>1. x \notin Referred
    BY <1>4, ReferredShape DEF Ended
  <2>2. ASSUME x \in UserFibers, status[x] = "fresh" PROVE FALSE
    <3>1. fib[x] = NewFiber(x)
      BY <2>2 DEF HoldInv, Claimed
    <3>. QED
      BY <1>4, <3>1 DEF Ended, NewFiber
  <2>. QED
    BY <1>2, <1>4, <2>1, <2>2 DEF Ended
<1>5. ASSUME Suspended(x)
      PROVE  /\ fib[x].state \in {"HOLD", "READY"} /\ fib[x].job \in Jobs
             /\ fib[x].state = "HOLD" => x \in Referred
             /\ fib[x].state = "READY" => ft[t].kind = "fiber"
             /\ x \in UserFibers => status[x] # "fresh"
  BY <1>1, <1>5 DEF Suspended, OnFiber, OwnFunction, Jobs
<1>6. ASSUME Suspended(x), fib[x].state = "READY" PROVE x \notin Referred
  <2>1. Claims(t, fib[x].job) /\ fib[x].job \in Jobs
    BY <1>2, <1>5, <1>6
  <2>. QED
    BY <2>1, ClaimShape
<1>. QED
  BY <1>1, <1>2, <1>3, <1>4, <1>5, <1>6

\* A READY fiber is listed again; a held one is left to its reference.
LEMMA HoldAfterFiber ==
    ASSUME HoldInv, TypeOK', Dispatched', NEW t, Threads = {t}, crash = "none", AfterFiber(t)
    PROVE  HoldInv' /\ crash' = "none"
<1>. USE SchedulerAssumption
<1>1. PICK x : x = ft[t].id
  OBVIOUS
<1>2. pc[t] = "after" /\ ft[t].kind = "fiber" /\ x = Cur(t)
  BY <1>1 DEF AfterFiber, Cur
<1>3. /\ Busy(t) /\ x \in Jobs /\ ~Leaving(t) /\ fib[x] \in FiberType(Jobs \cup {NoJob})
      /\ \/ Ended(fib[x]) /\ x \notin Referred /\ \A j \in Jobs : ~Claims(t, j)
         \/ /\ Suspended(x) /\ fib[x].state = "HOLD" /\ x \in Referred
            /\ \A j \in Jobs : ~Claims(t, j)
         \/ /\ Suspended(x) /\ fib[x].state = "READY" /\ ft[t].kind = "fiber"
            /\ fib[x].job \in Jobs /\ x \notin Referred
            /\ \A j \in Jobs : Claims(t, j) <=> j = fib[x].job
  BY <1>2, HoldBack, Zenon
<1>4. /\ fib' = IF KeepsState(fib[x].state) THEN fib
                ELSE [fib EXCEPT ![x] = SetState(@, "HOLD")]
      /\ IF fib[x].state = "READY" THEN m_fibers' = Append(m_fibers, FiberEntry(x))
                                   ELSE UNCHANGED m_fibers
      /\ pc'[t] = "scan" /\ ft'[t] = NoTask
      /\ UNCHANGED <<cb_fiber, waiters, crash, caller, status>>
  BY <1>1 DEF AfterFiber, Schedule, Goto, owner, history, HoldInv, TypeOK
<1>5. \A f \in Jobs : fib'[f] = fib[f]
  <2>1. CASE KeepsState(fib[x].state)
    BY <1>4, <2>1
  <2>2. CASE ~KeepsState(fib[x].state)
    <3>1. fib[x].state = "HOLD"
      BY <1>3, <2>2 DEF KeepsState, Ended
    <3>2. SetState(fib[x], "HOLD") = fib[x]
      BY <1>3, <3>1 DEF SetState, FiberType
    <3>. QED
      BY <1>3, <1>4, <2>2, <3>2 DEF HoldInv, TypeOK
  <2>. QED
    BY <2>1, <2>2
<1>6. ~Busy(t)' /\ \A j \in Jobs : ~Claims(t, j)'
  BY <1>4 DEF Busy, Active, Claims
<1>7. InHand(t)' /\ OnFiber(t)'
  BY <1>4, <1>6 DEF InHand, OnFiber
<1>8. Spare(t)'
  <2>1. Spare(t)
    BY DEF HoldInv
  <2>. QED
    BY <1>2, <1>4, <1>5, <1>6, <2>1 DEF Spare, Named, Jobs
<1>9. NoJob \notin Referred /\ NoJob \notin UserFibers /\ NoJob \notin Jobs
  BY ReferredShape DEF Jobs
<1>10. CASE fib[x].state # "READY"
  <2>1. UNCHANGED m_fibers /\ \A j \in Jobs : ~Claims(t, j)
    BY <1>3, <1>4, <1>10
  <2>. QED
    BY <1>3, <1>4, <1>5, <1>6, <1>7, <1>8, <1>9, <2>1, HoldPrivate
<1>11. CASE fib[x].state = "READY"
  <2>1. /\ Suspended(x) /\ fib[x].job \in Jobs /\ x \notin Referred
        /\ \A j \in Jobs : Claims(t, j) <=> j = fib[x].job
    BY <1>3, <1>11 DEF Ended
  <2>2. x \notin Queued("cb") /\ x \notin Queued("fiber") /\ x \notin waiters
    BY <2>1 DEF HoldInv, RefsOK, Suspended, Named, Referred
  <2>3. /\ FiberEntry(x) \in Fiber_and_Thread
        /\ FiberEntry(x).kind = "fiber" /\ FiberEntry(x).id = x
    BY <1>3 DEF FiberEntry, Fiber_and_Thread
  <2>4. /\ Queued("cb")' = Queued("cb") /\ Queued("fiber")' = Queued("fiber") \cup {x}
        /\ DistinctIds'
    BY <1>4, <1>11, <2>2, <2>3, AppendQueued DEF HoldInv, RefsOK
  <2>5. Referred' = Referred \cup {x} /\ Queued("fiber")' \cap waiters' = {}
    BY <1>4, <2>2, <2>4 DEF Referred, HoldInv, RefsOK
  <2>6. Touches(t, NoJob, {})
    BY <1>4, <1>5, <1>9 DEF Touches
  <2>7. Suspended(x)'
    BY <1>3, <1>4, <1>5, <2>1 DEF Suspended, OwnFunction, Named
  <2>8. \A g \in Referred : fib[g].job # fib[x].job /\ fib'[g] = fib[g] /\ g # NoJob
    BY <1>5, <2>1, ClaimShape, ReferredShape DEF Jobs
  <2>9. \A f \in Referred' :
            \/ f \in Referred \ {NoJob} /\ ~(Leaving(t) /\ Cur(t) = f)
            \/ Suspended(f)'
    BY <1>3, <2>5, <2>7, <2>8
  <2>10. \A f \in Referred' :
             \/ f \in Referred /\ fib'[f].job = fib[f].job
             \/ \A g \in Referred' \ {f} : fib'[f].job # fib'[g].job
    BY <1>3, <1>5, <2>5, <2>8
  <2>11. \A j \in Jobs : status'[j] \in {"submitted", "begun"} =>
             \/ j \in Queued("cb")'
             \/ \E f \in Referred' : fib'[f].job = j
    <3>. SUFFICES ASSUME NEW j \in Jobs, status'[j] \in {"submitted", "begun"}
                  PROVE  j \in Queued("cb")' \/ \E f \in Referred' : fib'[f].job = j
      OBVIOUS
    <3>1. j \in Queued("cb") \/ (\E f \in Referred : fib[f].job = j) \/ Claims(t, j)
      BY <1>4 DEF HoldInv, Claimed
    <3>. QED
      BY <1>3, <1>5, <2>1, <2>4, <2>5, <2>8, <3>1
  <2>. QED
    BY <1>4, <1>6, <1>7, <1>8, <2>4, <2>5, <2>6, <2>9, <2>10, <2>11, HoldKeeps
<1>. QED
  BY <1>10, <1>11

\* An ended callback's fiber is reset; a held one is given up by the thread.
LEMMA HoldAfterCb ==
    ASSUME HoldInv, TypeOK', Dispatched', NEW t, Threads = {t}, crash = "none", AfterCb(t)
    PROVE  HoldInv' /\ crash' = "none"
<1>. USE SchedulerAssumption
<1>1. PICK x : x = cb_fiber[t]
  OBVIOUS
<1>2. pc[t] = "after" /\ ft[t].kind # "fiber" /\ x = Cur(t)
  BY <1>1, Zenon DEF AfterCb, Cur
<1>3. /\ Busy(t) /\ x \in Jobs /\ ~Leaving(t) /\ fib[x] \in FiberType(Jobs \cup {NoJob})
      /\ \/ Ended(fib[x]) /\ x \notin Referred
         \/ Suspended(x) /\ fib[x].state = "HOLD" /\ x \in Referred
      /\ \A j \in Jobs : ~Claims(t, j)
      /\ x \in UserFibers => status[x] # "fresh"
  BY <1>2, HoldBack
<1>4. PICK s : s = fib[x].state
  OBVIOUS
<1>5. s \in {"TERM", "EXCPT"} \/ s = "HOLD"
  BY <1>3, <1>4 DEF Ended
<1>6. /\ fib' = [fib EXCEPT ![x] = CASE s = "READY" -> @
                                     [] s \in {"TERM", "EXCPT"} -> Reset(@, NoJob)
                                     [] OTHER -> SetState(@, "HOLD")]
      /\ IF s = "READY" THEN Schedule(FiberEntry(x)) ELSE UNCHANGED m_fibers
      /\ cb_fiber' = IF KeepsCbFiber(s) THEN cb_fiber
                     ELSE [cb_fiber EXCEPT ![t] = NoJob]
  BY <1>1, <1>4, Zenon DEF AfterCb
<1>7. /\ pc' = [pc EXCEPT ![t] = "scan"]
      /\ UNCHANGED <<ft, waiters, crash, caller, status>>
  BY Zenon DEF AfterCb, Goto, owner, history
<1>8. pc'[t] = "scan" /\ UNCHANGED m_fibers /\ ft[t] = NoTask
  <2>1. InHand(t)
    BY DEF HoldInv
  <2>2. UNCHANGED m_fibers
    BY <1>5, <1>6, Zenon
  <2>. QED
    BY <1>2, <1>3, <1>7, <2>1, <2>2 DEF InHand, HoldInv, TypeOK
<1>9. ~Busy(t)' /\ \A j \in Jobs : ~Claims(t, j)'
  BY <1>8 DEF Busy, Active, Claims
<1>10. InHand(t)' /\ OnFiber(t)'
  BY <1>7, <1>8, <1>9 DEF InHand, OnFiber
<1>11. x \in Cbs /\ Named(x)'
  <2>1. Spare(t)
    BY DEF HoldInv
  <2>2. cb_fiber[t] = x /\ x # NoJob
    BY <1>1, <1>2, <1>3 DEF Jobs
  <2>3. x \in Cbs /\ Named(x)
    BY <1>2, <2>1, <2>2 DEF Spare
  <2>. QED
    BY <1>7, <2>3 DEF Named
<1>12. CASE s \in {"TERM", "EXCPT"}
  <2>1. (CASE s = "READY" -> fib[x]
           [] s \in {"TERM", "EXCPT"} -> Reset(fib[x], NoJob)
           [] OTHER -> SetState(fib[x], "HOLD")) = Reset(fib[x], NoJob)
    <3>1. s # "READY"
      BY <1>12
    <3>. QED
      BY <1>12, <3>1, Zenon
  <2>2. fib' = [fib EXCEPT ![x] = Reset(@, NoJob)]
    BY <1>6, <2>1, Zenon
  <2>3. /\ fib'[x].state = "INIT" /\ \A f \in Jobs \ {x} : fib'[f] = fib[f]
        /\ x \notin Referred
    BY <1>3, <1>4, <1>12, <2>2 DEF Reset, HoldInv, TypeOK, FiberType
  <2>4. UNCHANGED cb_fiber
    <3>1. KeepsCbFiber(s)
      BY <1>12 DEF KeepsCbFiber
    <3>. QED
      BY <1>6, <3>1, Zenon
  <2>5. Spare(t)'
    BY <1>1, <1>11, <2>3, <2>4 DEF Spare, Named
  <2>. QED
    BY <1>3, <1>7, <1>8, <1>9, <1>10, <2>3, <2>5, HoldPrivate
<1>13. CASE s = "HOLD"
  <2>1. (CASE s = "READY" -> fib[x]
           [] s \in {"TERM", "EXCPT"} -> Reset(fib[x], NoJob)
           [] OTHER -> SetState(fib[x], "HOLD")) = SetState(fib[x], "HOLD")
    <3>1. s # "READY" /\ s \notin {"TERM", "EXCPT"}
      BY <1>13
    <3>. QED
      BY <3>1, Zenon
  <2>2. fib' = [fib EXCEPT ![x] = SetState(@, "HOLD")]
    BY <1>6, <2>1, Zenon
  <2>3. SetState(fib[x], "HOLD") = fib[x]
    BY <1>3, <1>4, <1>13 DEF SetState, FiberType
  <2>4. \A f \in Jobs : fib'[f] = fib[f]
    BY <1>3, <2>2, <2>3 DEF HoldInv, TypeOK
  <2>5. cb_fiber'[t] = NoJob
    <3>1. ~KeepsCbFiber(s)
      BY <1>13 DEF KeepsCbFiber
    <3>2. cb_fiber' = [cb_fiber EXCEPT ![t] = NoJob]
      BY <1>6, <3>1, Zenon
    <3>. QED
      BY <3>2 DEF HoldInv, TypeOK
  <2>6. Spare(t)'
    BY <2>5 DEF Spare
  <2>7. NoJob \notin Referred /\ NoJob \notin UserFibers
    BY ReferredShape DEF Jobs
  <2>. QED
    BY <1>3, <1>7, <1>8, <1>9, <1>10, <2>4, <2>6, <2>7, HoldPrivate
<1>. QED
  BY <1>5, <1>12, <1>13

-----------------------------------------------------------------------------
(* schedule, start() and stop() *)

\* New functions Y are listed.
LEMMA HoldSubmit ==
    ASSUME HoldInv, TypeOK', Dispatched', NEW t, Threads = {t}, crash = "none",
           NEW Y \in SUBSET Jobs,
           \A y \in Y : status[y] = "fresh" /\ status'[y] = "submitted",
           \A j \in Jobs \ Y : status'[j] = status[j],
           UNCHANGED <<fib, ft, cb_fiber, waiters, pc, crash>>,
           DistinctIds', Queued("cb")' = Queued("cb") \cup (Y \cap Cbs),
           Queued("fiber")' = Queued("fiber") \cup (Y \cap UserFibers)
    PROVE  HoldInv' /\ crash' = "none"
<1>. USE SchedulerAssumption
<1>1. /\ Cur(t)' = Cur(t) /\ (Busy(t)' <=> Busy(t)) /\ (Leaving(t)' <=> Leaving(t))
      /\ \A j \in Jobs : Claims(t, j)' <=> Claims(t, j)
  BY DEF Cur, Busy, Active, Leaving, Claims, Stands
<1>2. \A j \in Jobs : status[j] # "fresh" => status'[j] = status[j]
  OBVIOUS
<1>3. Touches(t, NoJob, Y)
  <2>1. NoJob \notin UserFibers /\ \A f \in Jobs \ {NoJob} : fib'[f] = fib[f]
    OBVIOUS
  <2>2. \A y \in Jobs \cap Y : status[y] = "fresh" /\ status'[y] = "submitted"
    OBVIOUS
  <2>. QED
    BY <2>1, <2>2 DEF Touches
<1>4. Referred' = Referred \cup (Y \cap UserFibers)
  BY DEF Referred
<1>5. \A y \in Y : /\ y \notin Referred /\ y \notin Queued("cb")
                   /\ \A f \in Referred : fib[f].job # y
                   /\ ~Claims(t, y)
                   /\ y \in UserFibers => fib[y] = NewFiber(y)
  BY Unreferred, ClaimShape DEF HoldInv, Claimed
<1>6. \A y \in Y \cap UserFibers : Submitted(y)' /\ fib'[y].job = y
  <2>. SUFFICES ASSUME NEW y \in Y, y \in UserFibers PROVE Submitted(y)' /\ fib'[y].job = y
    OBVIOUS
  <2>1. fib'[y] = NewFiber(y) /\ status'[y] = "submitted"
    BY <1>5
  <2>2. fib'[y].state = "INIT" /\ fib'[y].ctx = "fresh" /\ fib'[y].job = y
    BY <2>1 DEF NewFiber
  <2>. QED
    BY <2>1, <2>2 DEF Submitted
<1>7. \A f : /\ Named(f) /\ f \in Jobs => Named(f)'
             /\ Suspended(f) => Suspended(f)'
             /\ Submitted(f) => Submitted(f)'
             /\ Begun(f) => Begun(f)'
  BY <1>2 DEF Named, Suspended, Submitted, Begun, OwnFunction, Jobs
<1>8. InHand(t)'
  <2>1. InHand(t)
    BY DEF HoldInv
  <2>2. \A c \in Cbs : status[c] = "submitted" => status'[c] = "submitted"
    BY <1>2 DEF Jobs
  <2>. QED
    BY <1>1, <1>7, <2>1, <2>2 DEF InHand
<1>9. OnFiber(t)'
  <2>1. PICK x : x = Cur(t)
    OBVIOUS
  <2>2. OnFiber(t) /\ Cur(t)' = x
    BY <1>1, <2>1 DEF HoldInv
  <2>3. x \in Referred => x \in Referred'
    BY <1>4
  <2>4. Busy(t) => x \in Jobs /\ fib[x].job \in Jobs \cup {NoJob}
    BY <2>1 DEF HoldInv, Dispatched, Busy, TypeOK, FiberType
  <2>5. Busy(t) /\ Ended(fib[x]) => Ended(fib[x])'
    BY <1>2, <2>4 DEF Ended
  <2>6. ASSUME pc[t] = "swapIn" PROVE OnFiber(t)'
    <3>1. \/ ft[t].kind = "fiber" /\ (Suspended(x) \/ Submitted(x))
          \/ /\ ft[t].kind # "fiber" /\ OwnFunction(x) /\ (Named(x) \/ fib[x].job = x)
             /\ fib[x].state = "INIT" /\ fib[x].ctx = "fresh"
             /\ status[fib[x].job] = "submitted"
      BY <2>1, <2>2, <2>6 DEF OnFiber
    <3>2. OwnFunction(x) => fib[x].job \in Jobs /\ OwnFunction(x)'
      BY DEF OwnFunction, Jobs
    <3>3. x \in Jobs
      BY <2>4, <2>6 DEF Busy, Active
    <3>. QED
      BY <1>2, <1>7, <2>2, <2>6, <3>1, <3>2, <3>3 DEF OnFiber
  <2>7. ASSUME pc[t] # "swapIn" PROVE OnFiber(t)'
    BY <1>7, <2>1, <2>2, <2>3, <2>5, <2>7 DEF OnFiber, Busy, Active, Ended
  <2>. QED
    BY <2>6, <2>7
<1>10. Spare(t)'
  BY <1>1, <1>7 DEF HoldInv, Spare, Jobs
<1>11. Queued("fiber")' \cap waiters' = {}
  BY <1>5 DEF HoldInv, RefsOK, Referred
<1>12. \A c \in Queued("cb")' : c \in Queued("cb") \/ (c \in Cbs /\ status'[c] = "submitted")
  OBVIOUS
<1>13. \A f \in Referred : f # NoJob
  BY ReferredShape DEF Jobs
<1>14. \A f \in Referred' :
           \/ f \in Referred \ {NoJob} /\ ~(Leaving(t) /\ Cur(t) = f)
           \/ Suspended(f)' \/ Submitted(f)' \/ (Leaving(t)' /\ Cur(t)' = f)
  BY <1>1, <1>4, <1>6, <1>13
<1>15. \A f \in Referred' :
           \/ f \in Referred /\ fib'[f].job = fib[f].job
           \/ \A g \in Referred' \ {f} : fib'[f].job # fib'[g].job
  BY <1>4, <1>5, <1>6
<1>16. \A j \in Jobs : Claims(t, j)' =>
           j \notin Queued("cb")' /\ \A f \in Referred' : fib'[f].job # j
  BY <1>1, <1>4, <1>5, <1>6, ClaimShape
<1>17. ASSUME NEW j \in Jobs, status'[j] \in {"submitted", "begun"}
       PROVE  \/ j \in Queued("cb")'
              \/ \E f \in Referred' : fib'[f].job = j
              \/ Claims(t, j)'
  <2>1. CASE j \in Y
    BY <1>4, <1>6, <2>1 DEF Jobs
  <2>2. CASE j \notin Y
    BY <1>1, <1>4, <1>17, <2>2 DEF HoldInv, Claimed
  <2>. QED
    BY <2>1, <2>2
<1>. QED
  BY <1>3, <1>8, <1>9, <1>10, <1>11, <1>12, <1>14, <1>15, <1>16, <1>17, HoldKeeps

LEMMA HoldSchedule ==
    ASSUME HoldInv, TypeOK', Dispatched', NEW t, Threads = {t}, crash = "none",
           NEW j \in Jobs, NEW thread \in Threads \cup {AnyThread},
           AppSchedule(j, thread) \/ UserSchedule(t, j, thread)
    PROVE  HoldInv' /\ crash' = "none"
<1>. USE SchedulerAssumption
<1>1. PICK e : e = Entry(j, thread)
  OBVIOUS
<1>2. /\ status[j] = "fresh" /\ m_fibers' = Append(m_fibers, e)
      /\ status' = [status EXCEPT ![j] = "submitted"]
      /\ UNCHANGED <<fib, ft, cb_fiber, waiters, pc, crash>>
  BY <1>1 DEF AppSchedule, UserSchedule, Schedule, locals, owner
<1>3. /\ e \in Fiber_and_Thread /\ e.id = j
      /\ e.kind = IF j \in Cbs THEN "cb" ELSE "fiber"
  BY <1>1, EntryType DEF Entry
<1>4. j \notin Queued("cb") /\ j \notin Queued("fiber")
  BY <1>2, Unreferred DEF Referred
<1>5. PICK Y \in SUBSET Jobs : Y = {j}
  OBVIOUS
<1>6. /\ DistinctIds' /\ Queued("cb")' = Queued("cb") \cup (Y \cap Cbs)
      /\ Queued("fiber")' = Queued("fiber") \cup (Y \cap UserFibers)
  <2>1. DistinctIds
    BY DEF HoldInv, RefsOK
  <2>2. CASE j \in Cbs
    BY <1>2, <1>3, <1>4, <1>5, <2>1, <2>2, AppendQueued DEF HoldInv
  <2>3. CASE j \notin Cbs
    BY <1>2, <1>3, <1>4, <1>5, <2>1, <2>3, AppendQueued DEF HoldInv, Jobs
  <2>. QED
    BY <2>2, <2>3
<1>7. /\ \A y \in Y : status[y] = "fresh" /\ status'[y] = "submitted"
      /\ \A i \in Jobs \ Y : status'[i] = status[i]
  BY <1>2, <1>5 DEF HoldInv, TypeOK
<1>. QED
  BY <1>2, <1>6, <1>7, HoldSubmit

LEMMA HoldBatch ==
    ASSUME HoldInv, TypeOK', Dispatched', NEW t, Threads = {t}, crash = "none",
           NEW j \in Jobs, NEW k \in Jobs, AppScheduleBatch(j, k)
    PROVE  HoldInv' /\ crash' = "none"
<1>. USE SchedulerAssumption
<1>1. /\ j # k /\ status[j] = "fresh" /\ status[k] = "fresh"
      /\ m_fibers' = m_fibers \o <<Entry(j, AnyThread), Entry(k, AnyThread)>>
      /\ status' = [status EXCEPT ![j] = "submitted", ![k] = "submitted"]
      /\ UNCHANGED <<fib, ft, cb_fiber, waiters, pc, crash>>
  BY DEF AppScheduleBatch, locals, owner
<1>. DEFINE n == Len(m_fibers)
            d == Entry(j, AnyThread)
            e == Entry(k, AnyThread)
<1>2. /\ d \in Fiber_and_Thread /\ d.id = j /\ d.kind = IF j \in Cbs THEN "cb" ELSE "fiber"
      /\ e \in Fiber_and_Thread /\ e.id = k /\ e.kind = IF k \in Cbs THEN "cb" ELSE "fiber"
  BY EntryType DEF Entry
<1>3. /\ n \in Nat /\ DOMAIN m_fibers = 1..n /\ DOMAIN m_fibers' = 1..(n + 2)
      /\ \A i \in 1..n : m_fibers'[i] = m_fibers[i]
      /\ m_fibers'[n + 1] = d /\ m_fibers'[n + 2] = e
  <2>. HIDE DEF d, e
  <2>1. m_fibers \in Seq(Fiber_and_Thread) /\ <<d, e>> \in Seq(Fiber_and_Thread)
        /\ m_fibers' = m_fibers \o <<d, e>>
    BY <1>1, <1>2 DEF HoldInv, TypeOK, d, e
  <2>. QED
    BY <2>1
<1>. HIDE DEF d, e, n
<1>4. /\ \A i \in 1..(n + 2) : i \in 1..n \/ i = n + 1 \/ i = n + 2
      /\ 1..n \subseteq 1..(n + 2) /\ n + 1 \in 1..(n + 2) /\ n + 2 \in 1..(n + 2)
  BY <1>3
<1>5. PICK Y \in SUBSET Jobs : Y = {j, k}
  OBVIOUS
<1>6. \A y \in Y : y \notin Queued("cb") /\ y \notin Queued("fiber")
  BY <1>1, <1>5, Unreferred DEF Referred
<1>7. DistinctIds'
  <2>1. \A i, l \in 1..n : i # l => m_fibers'[i].id # m_fibers'[l].id
    BY <1>3 DEF HoldInv, RefsOK, DistinctIds
  <2>2. \A i \in 1..n : m_fibers'[i].id # j /\ m_fibers'[i].id # k
    BY <1>3, <1>5, <1>6, QueuedKinds DEF HoldInv
  <2>3. m_fibers'[n + 1].id = j /\ m_fibers'[n + 2].id = k
    BY <1>2, <1>3
  <2>. QED
    <3>1. \A i, l \in 1..(n + 2) : i # l => m_fibers'[i].id # m_fibers'[l].id
      BY <1>1, <1>4, <2>1, <2>2, <2>3
    <3>. QED
      BY <1>3, <3>1 DEF DistinctIds
<1>8. ASSUME NEW kind
      PROVE  Queued(kind)' = Queued(kind) \cup {y \in Y : kind = IF y \in Cbs THEN "cb" ELSE "fiber"}
  <2>1. \A x \in Queued(kind)' :
            x \in Queued(kind) \/ (x \in Y /\ kind = IF x \in Cbs THEN "cb" ELSE "fiber")
    BY <1>2, <1>3, <1>4, <1>5 DEF Queued
  <2>2. \A x \in Queued(kind) : x \in Queued(kind)'
    BY <1>3, <1>4 DEF Queued
  <2>3. \A y \in Y : kind = (IF y \in Cbs THEN "cb" ELSE "fiber") => y \in Queued(kind)'
    BY <1>2, <1>3, <1>4, <1>5 DEF Queued
  <2>. QED
    BY <2>1, <2>2, <2>3
<1>9. /\ Queued("cb")' = Queued("cb") \cup (Y \cap Cbs)
      /\ Queued("fiber")' = Queued("fiber") \cup (Y \cap UserFibers)
  <2>1. Queued("cb")' = Queued("cb") \cup {y \in Y : "cb" = IF y \in Cbs THEN "cb" ELSE "fiber"}
    BY <1>8
  <2>2. Queued("fiber")' = Queued("fiber") \cup {y \in Y : "fiber" = IF y \in Cbs THEN "cb" ELSE "fiber"}
    BY <1>8
  <2>. QED
    BY <2>1, <2>2 DEF Jobs
<1>10. /\ \A y \in Y : status[y] = "fresh" /\ status'[y] = "submitted"
       /\ \A i \in Jobs \ Y : status'[i] = status[i]
  BY <1>1, <1>5 DEF HoldInv, TypeOK
<1>. QED
  BY <1>1, <1>7, <1>9, <1>10, HoldSubmit

LEMMA HoldStartStop ==
    ASSUME HoldInv, Parked, TypeOK', Dispatched', NEW t, Threads = {t},
           crash = "none" \/ UNCHANGED vars,
           Start \/ Stop \/ StopStep \/ UNCHANGED vars
    PROVE  HoldInv'
<1>. USE SchedulerAssumption
<1>1. UNCHANGED <<fib, m_fibers, ft, cb_fiber, waiters, status>>
  <2>1. CASE Start
    BY <2>1 DEF Start, history
  <2>2. CASE Stop
    BY <2>2 DEF Stop, shared
  <2>3. CASE StopStep
    BY <2>3 DEF StopStep, RootReturn, SetStopping, Join, shared, locals, history
  <2>4. CASE UNCHANGED vars
    BY <2>4 DEF vars, shared, locals, history
  <2>. QED
    BY <2>1, <2>2, <2>3, <2>4
<1>2. pc'[t] = pc[t] \/ (Gone(t) /\ pc'[t] = "scan")
  <2>1. CASE Start
    BY <2>1 DEF Start, Parked, HoldInv, TypeOK
  <2>2. CASE Stop
    <3>1. UNCHANGED pc \/ (pc' = [pc EXCEPT ![Root] = "scan"] /\ UseCaller /\ caller = "out")
      BY <2>2 DEF Stop, Goto
    <3>. QED
      BY <3>1 DEF Parked, HoldInv, TypeOK
  <2>3. CASE StopStep
    BY <2>3 DEF StopStep, RootReturn, SetStopping, Join, locals
  <2>4. CASE UNCHANGED vars
    BY <2>4 DEF vars, locals
  <2>. QED
    BY <2>1, <2>2, <2>3, <2>4
<1>3. crash' # "none" => caller' = "root"
  <2>1. CASE UNCHANGED vars
    BY <2>1 DEF HoldInv, vars, owner, history
  <2>2. CASE crash = "none" /\ (Start \/ StopStep)
    BY <2>2 DEF Start, StopStep, RootReturn, SetStopping, Join, history
  <2>3. CASE crash = "none" /\ Stop
    BY <2>3 DEF Stop
  <2>. QED
    BY <2>1, <2>2, <2>3
<1>4. Referred' = Referred /\ Cur(t)' = Cur(t)
  BY <1>1 DEF Referred, Queued, Cur
<1>5. CASE pc'[t] = pc[t]
  <2>1. /\ (Busy(t)' <=> Busy(t)) /\ (Leaving(t)' <=> Leaving(t))
        /\ \A j \in Jobs : Claims(t, j)' <=> Claims(t, j)
    BY <1>1, <1>4, <1>5 DEF Busy, Active, Leaving, Claims, Stands
  <2>2. InHand(t)'
    BY <1>1, <1>5, <2>1 DEF HoldInv, InHand, Suspended, Submitted, OwnFunction, Named
  <2>3. OnFiber(t)'
    <3>1. OnFiber(t)
      BY DEF HoldInv
    <3>. QED
      BY <1>1, <1>4, <1>5, <3>1
      DEF OnFiber, Begun, Ended, Suspended, Submitted, OwnFunction, Named
  <2>4. Spare(t)'
    BY <1>1, <1>5, <2>1 DEF HoldInv, Spare, Named
  <2>. QED
    BY <1>1, <1>3, <1>4, <2>1, <2>2, <2>3, <2>4, HoldLocal
<1>6. CASE Gone(t) /\ pc'[t] = "scan"
  <2>1. /\ ~Busy(t) /\ ~Busy(t)' /\ ~Leaving(t)
        /\ \A j \in Jobs : ~Claims(t, j) /\ ~Claims(t, j)'
    BY <1>6 DEF Gone, Busy, Active, Leaving, Claims
  <2>2. InHand(t)' /\ OnFiber(t)'
    BY <1>1, <1>6, <2>1 DEF HoldInv, InHand, OnFiber, Gone
  <2>3. Spare(t)'
    BY <1>1, <1>6, <2>1 DEF HoldInv, Spare, Named, Gone
  <2>. QED
    BY <1>1, <1>3, <2>1, <2>2, <2>3, HoldLocal
<1>. QED
  BY <1>2, <1>5, <1>6

LEMMA HoldInit == Init => HoldInv
<1>. SUFFICES ASSUME Init PROVE HoldInv
  OBVIOUS
<1>1. TypeOK /\ Dispatched
  BY InitTyped
<1>2. \A t \in Threads : ~Busy(t) /\ \A j \in Jobs : ~Claims(t, j)
  BY DEF Init, Busy, Active, Claims
<1>3. \A t \in Threads : InHand(t) /\ OnFiber(t) /\ Spare(t)
  BY <1>2 DEF Init, InHand, OnFiber, Spare
<1>4. Queued("cb") = {} /\ Queued("fiber") = {} /\ Referred = {} /\ DistinctIds
  BY DEF Init, Queued, Referred, DistinctIds
<1>5. RefsOK
  BY <1>4 DEF RefsOK
<1>6. Claimed
  <2>1. \A j \in UserFibers : j \in Jobs /\ fib[j] = NewFiber(j)
    BY DEF Init, Jobs
  <2>. QED
    BY <1>2, <1>4, <2>1 DEF Claimed, Init
<1>. QED
  BY <1>1, <1>3, <1>5, <1>6 DEF HoldInv, Init

\* Again only stop() can end in a failed assertion.
LEMMA HoldStep ==
    ASSUME HoldsSafe, HoldInv, Parked, [Next]_vars
    PROVE  HoldInv' /\ (crash = "none" /\ crash' # "none" => Stop)
<1>. USE SchedulerAssumption
<1>0. PICK t : Threads = {t}
  BY DEF HoldsSafe
<1>1. TypeOK' /\ Dispatched'
  BY TypeStep, DispatchedStep DEF HoldInv
<1>2. ASSUME RunStep(t), crash = "none" PROVE HoldInv' /\ crash' = "none"
  <2>1. CASE TakeTask(t)
    BY <1>0, <1>1, <1>2, <2>1, HoldTakeTask
  <2>2. CASE FindNothing(t) \/ Idle(t) \/ Exit(t)
    BY <1>0, <1>1, <1>2, <2>2, HoldScans
  <2>3. CASE DispatchFiber(t)
    BY <1>0, <1>1, <1>2, <2>3, HoldDispatchFiber
  <2>4. CASE DispatchCb(t)
    BY <1>0, <1>1, <1>2, <2>4, HoldDispatchCb
  <2>5. CASE Resume(t)
    BY <1>0, <1>1, <1>2, <2>5, HoldResume
  <2>6. CASE Leave(t)
    BY <1>0, <1>1, <1>2, <2>6, HoldLeave
  <2>7. CASE AfterFiber(t)
    BY <1>0, <1>1, <1>2, <2>7, HoldAfterFiber
  <2>8. CASE AfterCb(t)
    BY <1>0, <1>1, <1>2, <2>8, HoldAfterCb
  <2>. QED
    BY <1>2, <2>1, <2>2, <2>3, <2>4, <2>5, <2>6, <2>7, <2>8 DEF RunStep
<1>3. ASSUME UserStep(t), crash = "none" PROVE HoldInv' /\ crash' = "none"
  <2>1. ASSUME NEW j \in Jobs, NEW thread \in SpawnPins, UserSchedule(t, j, thread)
        PROVE  HoldInv' /\ crash' = "none"
    BY <1>0, <1>1, <1>3, <2>1, HoldSchedule
  <2>2. CASE YieldToReady(t) \/ YieldToHold(t)
    BY <1>0, <1>1, <1>3, <2>2, HoldYields
  <2>3. CASE Register(t)
    BY <1>0, <1>1, <1>3, <2>3, HoldRegister
  <2>4. ASSUME NEW throws \in BOOLEAN, Finish(t, throws) PROVE HoldInv' /\ crash' = "none"
    BY <1>0, <1>1, <1>3, <2>4, HoldFinish
  <2>. QED
    BY <1>3, <2>1, <2>2, <2>3, <2>4 DEF UserStep
<1>4. ASSUME NEW f \in Jobs, Wake(f), crash = "none" PROVE HoldInv' /\ crash' = "none"
  BY <1>0, <1>1, <1>4, HoldWake
<1>5. ASSUME AppStep \/ StopStep, crash = "none"
      PROVE  HoldInv' /\ (crash' # "none" => Stop)
  <2>1. CASE Start \/ StopStep
    BY <1>0, <1>1, <1>5, <2>1, HoldStartStop
    DEF Start, StopStep, RootReturn, SetStopping, Join, history
  <2>2. CASE Stop
    BY <1>0, <1>1, <1>5, <2>2, HoldStartStop
  <2>3. ASSUME NEW j \in Jobs, NEW thread \in AppPins, AppSchedule(j, thread)
        PROVE  HoldInv' /\ crash' = "none"
    BY <1>0, <1>1, <1>5, <2>3, HoldSchedule
  <2>4. ASSUME NEW j \in Jobs, NEW k \in Jobs, AppScheduleBatch(j, k)
        PROVE  HoldInv' /\ crash' = "none"
    BY <1>0, <1>1, <1>5, <2>4, HoldBatch
  <2>. QED
    BY <1>5, <2>1, <2>2, <2>3, <2>4 DEF AppStep
<1>6. CASE UNCHANGED vars
  <2>1. UNCHANGED crash
    BY <1>6 DEF vars, history
  <2>. QED
    BY <1>0, <1>1, <1>6, <2>1, HoldStartStop
<1>. QED
  BY <1>0, <1>2, <1>3, <1>4, <1>5, <1>6 DEF Next, Step, Over

LEMMA HoldHolds ==
    ASSUME HoldsSafe PROVE Spec => [](HoldInv /\ Parked)
<1>1. Init => HoldInv /\ Parked
  BY HoldInit DEF Init, Parked, Gone, Threads
<1>2. HoldInv /\ Parked /\ [Next]_vars => HoldInv' /\ Parked'
  BY HoldStep, ParkedStep DEF HoldInv
<1>. QED
  BY <1>1, <1>2, PTL DEF Spec

\* Where functions hold and there is one thread, every function that was
\* scheduled and has not finished is listed, waited for or at the thread, and
\* nothing refers to it twice: no held fiber is destroyed or resumed twice.
THEOREM HeldCorrect ==
    ASSUME HoldsSafe PROVE Spec => []HeldIsReferenced
<1>1. HoldInv => HeldIsReferenced
  <2>. SUFFICES ASSUME HoldInv, NEW j \in Jobs, status[j] \in {"submitted", "begun"}
                PROVE  /\ HoldersOf(j) \cup EntriesOf(j) \cup WaitersOf(j) # {}
                       /\ Cardinality(EntriesOf(j)) + Cardinality(WaitersOf(j)) <= 1
    BY DEF HeldIsReferenced
  <2>0. PICK t : Threads = {t}
    BY DEF HoldsSafe
  <2>1. \A i \in DOMAIN m_fibers :
            /\ m_fibers[i].kind = "cb" => m_fibers[i].id \in Queued("cb")
            /\ m_fibers[i].kind # "cb" => m_fibers[i].id \in Referred
                                          /\ m_fibers[i].id \in Queued("fiber")
    BY QueuedKinds DEF HoldInv, Referred
  <2>2. \A f \in Referred : fib[f].job \notin Queued("cb")
    <3>. SUFFICES ASSUME NEW f \in Referred, fib[f].job \in Queued("cb") PROVE FALSE
      OBVIOUS
    <3>1. /\ fib[f].job \in Cbs /\ status[fib[f].job] = "submitted"
      BY DEF HoldInv, RefsOK
    <3>2. /\ f \in Jobs /\ OwnFunction(f)
          /\ f \in Cbs => status[fib[f].job] = "begun"
      BY <2>0, ReferredShape
    <3>. QED
      BY <3>1, <3>2, SchedulerAssumption DEF OwnFunction, Jobs
  <2>3. \A f, g \in Referred : fib[f].job = fib[g].job => f = g
    BY DEF HoldInv, RefsOK
  <2>4. \A i \in EntriesOf(j) : i \in DOMAIN m_fibers /\ Stands(m_fibers[i], j)
    BY DEF EntriesOf
  <2>5. \A f \in WaitersOf(j) : f \in Referred /\ f \in waiters /\ fib[f].job = j
    BY DEF WaitersOf, Referred
  <2>6. \A i, k \in EntriesOf(j) : i = k
    <3>1. \A i, k \in EntriesOf(j) : m_fibers[i].id = m_fibers[k].id
      BY <2>1, <2>2, <2>3, <2>4 DEF Stands
    <3>. QED
      BY <2>4, <3>1 DEF HoldInv, RefsOK, DistinctIds
  <2>7. \A f, g \in WaitersOf(j) : f = g
    BY <2>3, <2>5
  <2>8. EntriesOf(j) = {} \/ WaitersOf(j) = {}
    <3>. SUFFICES ASSUME NEW i \in EntriesOf(j), NEW f \in WaitersOf(j) PROVE FALSE
      OBVIOUS
    <3>1. m_fibers[i].kind # "cb"
      BY <2>1, <2>2, <2>4, <2>5 DEF Stands
    <3>2. m_fibers[i].id = f /\ f \in Queued("fiber")
      BY <2>1, <2>3, <2>4, <2>5, <3>1 DEF Stands
    <3>. QED
      BY <2>5, <3>2 DEF HoldInv, RefsOK
  <2>9. HoldersOf(j) \cup EntriesOf(j) \cup WaitersOf(j) # {}
    <3>1. \/ j \in Queued("cb")
          \/ \E f \in Referred : fib[f].job = j
          \/ Claims(t, j)
      BY <2>0 DEF HoldInv, Claimed
    <3>2. CASE j \in Queued("cb")
      BY <3>2 DEF Queued, EntriesOf, Stands
    <3>3. ASSUME NEW f \in Referred, fib[f].job = j PROVE EntriesOf(j) \cup WaitersOf(j) # {}
      BY <3>3 DEF Referred, Queued, EntriesOf, WaitersOf, Stands
    <3>4. CASE Claims(t, j)
      BY <2>0, <3>4 DEF Claims, HoldersOf, Holds
    <3>. QED
      BY <3>1, <3>2, <3>3, <3>4
  <2>10. ASSUME NEW S, \A a, b \in S : a = b
         PROVE  Cardinality(S) \in Nat /\ Cardinality(S) <= 1 /\ (S = {} => Cardinality(S) = 0)
    <3>1. CASE S = {}
      BY <3>1, FS_EmptySet
    <3>2. CASE S # {}
      <4>1. PICK a : a \in S
        BY <3>2
      <4>2. \A b \in S : b = a
        BY <2>10, <4>1
      <4>3. S = {a}
        BY <4>1, <4>2
      <4>4. Cardinality({a}) = 1
        BY FS_Singleton
      <4>. QED
        BY <3>2, <4>3, <4>4
    <3>. QED
      BY <3>1, <3>2
  <2>11. /\ Cardinality(EntriesOf(j)) \in Nat /\ Cardinality(EntriesOf(j)) <= 1
         /\ EntriesOf(j) = {} => Cardinality(EntriesOf(j)) = 0
    BY <2>6, <2>10
  <2>12. /\ Cardinality(WaitersOf(j)) \in Nat /\ Cardinality(WaitersOf(j)) <= 1
         /\ WaitersOf(j) = {} => Cardinality(WaitersOf(j)) = 0
    BY <2>7, <2>10
  <2>. QED
    BY <2>8, <2>9, <2>11, <2>12
<1>. QED
  BY <1>1, HoldHolds, PTL

\* Nor does an assertion of fiber.cc fail there: run() never resets a held
\* fiber and never enters one whose context is not saved.
THEOREM HeldAssertionsHold ==
    ASSUME HoldsSafe, UseCaller => MaxRounds <= 1
    PROVE  Spec => []NoAssertionFails
<1>1. Init => RootOnce /\ crash = "none"
  BY DEF Init, RootOnce
<1>2. HoldInv /\ Parked /\ RootOnce /\ crash = "none" /\ [Next]_vars
        => RootOnce' /\ (crash = "none")'
  <2>. SUFFICES ASSUME HoldInv, Parked, RootOnce, crash = "none", [Next]_vars
                PROVE  RootOnce' /\ crash' = "none"
    OBVIOUS
  <2>1. RootOnce'
    BY RootOnceStep DEF HoldInv
  <2>2. CASE Stop
    BY <2>2, SchedulerAssumption DEF Stop, RootOnce, HoldInv, TypeOK
  <2>. QED
    BY <2>1, <2>2, HoldStep
<1>. QED
  BY <1>1, <1>2, HoldHolds, PTL DEF Spec, NoAssertionFails
=============================================================================
