---------------------------- MODULE ThreadProofs ----------------------------
(***************************************************************************)
(* The handshake between the constructor of sylar::Thread and the thread   *)
(* it starts, for every number of workers and of Threads of the            *)
(* application, and every number of failed calls.                          *)
(***************************************************************************)
EXTENDS Thread, TLAPS

-----------------------------------------------------------------------------
(* The inductive invariant *)

\* The owner of t is inside t's constructor, waiting for the semaphore.
Waiting(t) ==
    \/ t \in Workers /\ mpc = "wait" /\ idx = t
    \/ t \in Own /\ cpc[t] = "wait"

\* run() has posted the semaphore and is done with the object.
Past == {"cb", "running", "done"}

\* An object and its thread come into being together; run() sets the id before
\* the callback is taken over, and posts once, at its end.
ThreadInv(t) ==
    /\ obj[t] = "none" <=> tpc[t] = "none"
    /\ tpc[t] \in Past \cup {"swap", "notify"} => m_id[t]
    /\ sem[t] > 0 => tpc[t] \in Past

\* The handshake itself: the object lives while its owner waits, and an owner
\* that is not waiting any more, and was not thrown out of the constructor,
\* has an object that run() no longer needs.
OwnerInv(t) ==
    /\ Waiting(t) => obj[t] = "alive"
    /\ obj[t] # "none" /\ ~Waiting(t) /\ t \notin interrupted => tpc[t] \in Past

\* Where start() and stop() are: which workers exist, how long the vectors are.
PoolInv ==
    /\ mpc \in {"create", "wait"} => idx \in 1..(N + 1) /\ Len(m_threads) = N
    /\ mpc = "wait" => idx \in Workers
    /\ mpc = "join" => idx >= 1
    /\ Len(m_threads) <= N /\ Len(thrs) <= N
    /\ \A t \in Workers : \/ mpc = "out"
                          \/ mpc = "create" /\ t >= idx
                          \/ mpc = "wait" /\ t > idx
                          => obj[t] = "none"

\* A Thread of the application: it exists from CreateOwn on, is alive until it
\* is dropped, and m_thread is 0 only when its thread is over.
OwnInv(t) ==
    /\ cpc[t] = "out" => obj[t] = "none"
    /\ cpc[t] \in {"wait", "owns", "joined"} => obj[t] = "alive"
    /\ obj[t] # "none" => m_thread[t] \/ tpc[t] = "done"

\* Only Threads of the application that were dropped have had SetName called
\* on their dead object.
NamedInv == \A t \in named : /\ t \in Own /\ cpc[t] = "gone"
                             /\ t \in interrupted \/ m_thread[t]

Inv ==
    /\ TypeOK
    /\ \A t \in Threads : ThreadInv(t) /\ OwnerInv(t)
    /\ PoolInv
    /\ \A t \in Own : OwnInv(t)
    /\ NamedInv
    /\ touched \subseteq interrupted
    /\ \A i \in DOMAIN m_thread_ids : m_thread_ids[i]

-----------------------------------------------------------------------------
(* The steps of run(), on the new thread *)

\* A statement of run() that goes through the raw pointer finds the object
\* alive, unless the constructor was interrupted.
LEMMA UsesTouches ==
    ASSUME Inv, NEW t \in Threads, NEW at \in {"name", "id", "swap", "notify"},
           Uses(t, at)
    PROVE  touched' \subseteq interrupted'
<1>1. tpc[t] = at /\ at \notin Past
  BY DEF Uses, Past
<1>2. obj[t] = "freed" => t \in interrupted
  BY <1>1 DEF Inv, OwnerInv
<1>. QED
  BY <1>2 DEF Uses, Inv

\* The order of run(), one statement after the other.
LEMMA ThenFacts ==
    /\ Then("name") = "id"
    /\ Then("id") = "swap"
    /\ Then("swap") = "notify"
    /\ Then("notify") = "cb"
BY DEF Then

LEMMA RunStepInv == ASSUME Inv, NEW t \in Threads, RunStep(t) PROVE Inv'
<1>. USE DEF objVars, poolVars, histVars
<1>1. CASE ReadName(t)
  <2>1. touched' \subseteq interrupted'
    BY <1>1, UsesTouches DEF ReadName
  <2>2. tpc' = [tpc EXCEPT ![t] = "id"] /\ tpc[t] = "name"
    BY <1>1, ThenFacts DEF ReadName, Uses
  <2>3. touched' \subseteq Threads
    BY <1>1 DEF ReadName, Uses, Inv, TypeOK
  <2>. QED
    BY <1>1, <2>1, <2>2, <2>3 DEF ReadName, Uses, Inv, TypeOK, ThreadInv, OwnerInv, PoolInv, OwnInv,
       NamedInv, Waiting, Past, Places
<1>2. CASE SetId(t)
  <2>1. touched' \subseteq interrupted'
    BY <1>2, UsesTouches DEF SetId
  <2>2. tpc' = [tpc EXCEPT ![t] = "swap"] /\ tpc[t] = "id"
    BY <1>2, ThenFacts DEF SetId, Uses
  <2>3. touched' \subseteq Threads
    BY <1>2 DEF SetId, Uses, Inv, TypeOK
  <2>. QED
    BY <1>2, <2>1, <2>2, <2>3 DEF SetId, Uses, Inv, TypeOK, ThreadInv, OwnerInv, PoolInv, OwnInv,
       NamedInv, Waiting, Past, Places
<1>3. CASE SwapCb(t)
  <2>1. touched' \subseteq interrupted'
    BY <1>3, UsesTouches DEF SwapCb
  <2>2. tpc' = [tpc EXCEPT ![t] = "notify"] /\ tpc[t] = "swap"
    BY <1>3, ThenFacts DEF SwapCb, Uses
  <2>3. touched' \subseteq Threads
    BY <1>3 DEF SwapCb, Uses, Inv, TypeOK
  <2>. QED
    BY <1>3, <2>1, <2>2, <2>3 DEF SwapCb, Uses, Inv, TypeOK, ThreadInv, OwnerInv, PoolInv, OwnInv,
       NamedInv, Waiting, Past, Places
<1>4. CASE Notify(t)
  <2>1. touched' \subseteq interrupted'
    BY <1>4, UsesTouches DEF Notify
  <2>2. tpc' = [tpc EXCEPT ![t] = "cb"] /\ tpc[t] = "notify"
    BY <1>4, ThenFacts DEF Notify, Uses
  <2>3. touched' \subseteq Threads
    BY <1>4 DEF Notify, Uses, Inv, TypeOK
  <2>. QED
    BY <1>4, <2>1, <2>2, <2>3 DEF Notify, Uses, Inv, TypeOK, ThreadInv, OwnerInv, PoolInv, OwnInv,
       NamedInv, Waiting, Past, Places
<1>5. CASE EnterRun(t)
  BY <1>5 DEF EnterRun, Inv, TypeOK, ThreadInv, OwnerInv, PoolInv, OwnInv,
     NamedInv, Waiting, Past, Places
<1>6. CASE LeaveRun(t)
  BY <1>6 DEF LeaveRun, Inv, TypeOK, ThreadInv, OwnerInv, PoolInv, OwnInv,
     NamedInv, Waiting, Past, Places
<1>7. CASE ReturnCb(t)
  BY <1>7 DEF ReturnCb, Inv, TypeOK, ThreadInv, OwnerInv, PoolInv, OwnInv,
     NamedInv, Waiting, Past, Places
<1>. QED
  BY <1>1, <1>2, <1>3, <1>4, <1>5, <1>6, <1>7 DEF RunStep

-----------------------------------------------------------------------------
(* The pool: start() and stop() *)

LEMMA PoolStepInv ==
    ASSUME Inv, Start \/ Stop \/ PoolStep \/ WorkerFails PROVE Inv'
<1>. USE ThreadAssumption DEF objVars, poolVars, histVars
<1>1. CASE Start
  <2>1. m_threads' \in Seq(0..N) /\ Len(m_threads') = N
    BY <1>1 DEF Start, Workers
  <2>2. TypeOK'
    <3>1. idx' \in 0..(N + 1)
      BY <1>1 DEF Start
    <3>2. locked' \in BOOLEAN /\ m_stopping' \in BOOLEAN
      BY <1>1 DEF Start
    <3>. QED
      BY <1>1, <2>1, <3>1, <3>2 DEF Start, Inv, TypeOK
  <2>. QED
    BY <1>1, <2>1, <2>2 DEF Start, Inv, TypeOK, ThreadInv, OwnerInv, PoolInv, OwnInv,
       NamedInv, Waiting, Workers
<1>2. CASE Stop
  BY <1>2 DEF Stop, Inv, TypeOK, ThreadInv, OwnerInv, PoolInv, OwnInv, NamedInv, Waiting
<1>3. CASE CreateWorker
  <2>1. idx \in Workers /\ idx \in Threads /\ idx \notin Own /\ obj[idx] = "none"
    BY <1>3 DEF CreateWorker, Inv, PoolInv, Workers, Threads
  <2>2. TypeOK'
    BY <1>3, <2>1 DEF CreateWorker, Construct, Inv, TypeOK, Places
  <2>3. \A t \in Threads : ThreadInv(t)'
    BY <1>3, <2>1 DEF CreateWorker, Construct, Inv, TypeOK, ThreadInv, Past
  <2>4. \A t \in Threads : OwnerInv(t)'
    BY <1>3, <2>1 DEF CreateWorker, Construct, Inv, TypeOK, OwnerInv, Waiting
  <2>5. PoolInv'
    BY <1>3, <2>1 DEF CreateWorker, Construct, Inv, TypeOK, PoolInv, Workers, Threads
  <2>6. (\A t \in Own : OwnInv(t))'
    BY <1>3, <2>1 DEF CreateWorker, Construct, Inv, TypeOK, OwnInv, Threads
  <2>7. NamedInv'
    BY <1>3, <2>1 DEF CreateWorker, Construct, Inv, TypeOK, NamedInv, Threads
  <2>. QED
    BY <1>3, <2>2, <2>3, <2>4, <2>5, <2>6, <2>7 DEF CreateWorker, Inv
<1>4. CASE StoreWorker
  <2>1. idx \in Workers /\ idx \in Threads /\ idx \notin Own
    BY <1>4 DEF StoreWorker, Inv, PoolInv, Workers, Threads
  <2>2. tpc[idx] \in Past /\ m_id[idx] = TRUE
    BY <1>4, <2>1 DEF StoreWorker, Waited, Inv, TypeOK, ThreadInv
  <2>3. m_threads' \in Seq(0..N) /\ Len(m_threads') = N
    BY <1>4, <2>1 DEF StoreWorker, Inv, TypeOK, PoolInv, Workers
  <2>4. /\ m_thread_ids' \in Seq(BOOLEAN)
        /\ \A i \in DOMAIN m_thread_ids' : m_thread_ids'[i]
    <3>1. /\ m_thread_ids \in Seq(BOOLEAN)
          /\ \A i \in DOMAIN m_thread_ids : m_thread_ids[i]
          /\ m_thread_ids' = Append(m_thread_ids, TRUE)
      BY <1>4, <2>2 DEF StoreWorker, Inv, TypeOK
    <3>2. m_thread_ids' \in Seq(BOOLEAN)
      BY <3>1
    <3>3. DOMAIN m_thread_ids = 1..Len(m_thread_ids)
      BY <3>1
    <3>4. DOMAIN m_thread_ids' = 1..(Len(m_thread_ids) + 1)
      BY <3>1
    <3>. QED
      BY <3>1, <3>2, <3>3, <3>4
  <2>5. TypeOK'
    <3>1. sem' \in [Threads -> 0..1]
      BY <1>4, <2>1 DEF StoreWorker, Waited, Inv, TypeOK
    <3>2. idx' \in 0..(N + 1)
      BY <1>4, <2>1, ThreadAssumption DEF StoreWorker, Workers
    <3>3. UNCHANGED <<obj, m_id, m_cb, m_thread, tpc, cpc, locked, m_stopping, thrs, faults,
                      touched, interrupted, named>> /\ mpc' = "create"
      BY <1>4 DEF StoreWorker, Waited, histVars
    <3>. QED
      BY <2>3, <2>4, <3>1, <3>2, <3>3 DEF Inv, TypeOK
  <2>6. \A t \in Threads : ThreadInv(t)'
    BY <1>4, <2>1 DEF StoreWorker, Waited, Inv, TypeOK, ThreadInv, Past
  <2>7. \A t \in Threads : OwnerInv(t)'
    BY <1>4, <2>1, <2>2 DEF StoreWorker, Waited, Inv, TypeOK, OwnerInv, Waiting
  <2>8. PoolInv'
    BY <1>4, <2>1, <2>3 DEF StoreWorker, Waited, Inv, TypeOK, PoolInv, Workers
  <2>. QED
    BY <1>4, <2>4, <2>5, <2>6, <2>7, <2>8 DEF StoreWorker, Waited, Inv, OwnInv, NamedInv
<1>5. CASE WorkerFails
  <2>0. /\ locked' = FALSE /\ mpc' = "threw"
        /\ UNCHANGED <<tpc, cpc, idx, m_stopping, m_threads, m_thread_ids, thrs,
                       touched, named>>
    BY <1>5 DEF WorkerFails
  <2>1. CASE mpc = "create" /\ CreateFails /\ UNCHANGED <<objVars, interrupted>>
    <3>1. faults' \in 0..MaxFaults
      BY <2>1 DEF CreateFails, Inv, TypeOK
    <3>2. TypeOK'
      BY <2>0, <2>1, <3>1 DEF Inv, TypeOK
    <3>. QED
      BY <2>0, <2>1, <3>2 DEF Inv, ThreadInv, OwnerInv, PoolInv, OwnInv, NamedInv, Waiting
  <2>2. CASE mpc = "wait" /\ Interrupted(idx)
    <3>1. idx \in Workers /\ idx \in Threads /\ idx \notin Own /\ obj[idx] = "alive"
      BY <2>2 DEF Inv, PoolInv, OwnerInv, Waiting, Workers, Threads
    <3>2. TypeOK'
      <4>1. faults' \in 0..MaxFaults /\ interrupted' \subseteq Threads
        BY <2>2, <3>1 DEF Interrupted, Inv, TypeOK
      <4>2. obj' \in [Threads -> {"none", "alive", "freed"}]
        BY <2>2, <3>1 DEF Interrupted, Inv, TypeOK
      <4>. QED
        BY <2>0, <2>2, <4>1, <4>2 DEF Interrupted, Inv, TypeOK
    <3>3. \A t \in Threads : ThreadInv(t)' /\ OwnerInv(t)'
      BY <1>5, <2>2, <3>1 DEF WorkerFails, Interrupted, Inv, TypeOK, ThreadInv, OwnerInv,
         Waiting
    <3>4. PoolInv'
      BY <1>5, <2>2, <3>1 DEF WorkerFails, Interrupted, Inv, TypeOK, PoolInv
    <3>5. (\A t \in Own : OwnInv(t))' /\ NamedInv'
      BY <1>5, <2>2, <3>1 DEF WorkerFails, Interrupted, Inv, TypeOK, OwnInv, NamedInv, Threads
    <3>. QED
      BY <1>5, <2>2, <3>2, <3>3, <3>4, <3>5 DEF WorkerFails, Interrupted, Inv
  <2>. QED
    BY <1>5, <2>1, <2>2 DEF WorkerFails
<1>6. CASE StartReturn
  BY <1>6 DEF StartReturn, Inv, TypeOK, ThreadInv, OwnerInv, PoolInv, OwnInv, NamedInv,
     Waiting
<1>7. CASE TakeThreads
  <2>1. TypeOK' /\ PoolInv'
    BY <1>7 DEF TakeThreads, Inv, TypeOK, PoolInv
  <2>. QED
    BY <1>7, <2>1 DEF TakeThreads, Inv, TypeOK, ThreadInv, OwnerInv, OwnInv, NamedInv, Waiting
<1>8. CASE JoinWorker
  <2>1. CASE thrs[idx] = 0
    BY <1>8, <2>1 DEF JoinWorker, Inv, TypeOK, ThreadInv, OwnerInv, PoolInv, OwnInv,
       NamedInv, Waiting
  <2>2. CASE thrs[idx] # 0
    <3>1. idx \in 1..N /\ mpc = "join" /\ mpc' = mpc /\ idx' = idx + 1
      BY <1>8, <2>2 DEF JoinWorker, Inv, TypeOK, PoolInv
    <3>2. thrs[idx] \in Workers /\ thrs[idx] \notin Own
      BY <1>8, <2>2, <3>1 DEF JoinWorker, Inv, TypeOK, Workers
    <3>3. TypeOK'
      <4>1. idx' \in 0..(N + 1) /\ mpc' = mpc
        BY <3>1
      <4>2. m_thread' \in [Threads -> BOOLEAN]
        BY <1>8, <2>2 DEF JoinWorker, Inv, TypeOK
      <4>. QED
        BY <1>8, <4>1, <4>2 DEF JoinWorker, Inv, TypeOK
    <3>4. \A t \in Own : m_thread'[t] = m_thread[t]
      BY <1>8, <2>2, <3>2 DEF JoinWorker, Inv, TypeOK, Threads
    <3>. QED
      BY <1>8, <3>1, <3>3, <3>4 DEF JoinWorker, Inv, TypeOK, ThreadInv, OwnerInv, PoolInv,
         OwnInv, NamedInv, Waiting
  <2>. QED
    BY <2>1, <2>2
<1>9. CASE StopReturn
  <2>1. TypeOK'
    BY <1>9 DEF StopReturn, Inv, TypeOK
  <2>2. ASSUME NEW t \in Threads PROVE ThreadInv(t)' /\ OwnerInv(t)'
    <3>1. ThreadInv(t) /\ OwnerInv(t)
      BY DEF Inv
    <3>2. /\ obj'[t] = "none" <=> obj[t] = "none"
          /\ t \in Own => obj'[t] = obj[t]
          /\ mpc = "join" /\ mpc' = "stopped"
      BY <1>9 DEF StopReturn, Inv, TypeOK, Workers
    <3>3. Waiting(t)' => Waiting(t) /\ t \in Own
      BY <1>9, <3>2 DEF StopReturn, Waiting
    <3>4. Waiting(t) => Waiting(t)'
      BY <1>9, <3>2 DEF StopReturn, Waiting
    <3>. QED
      BY <1>9, <3>1, <3>2, <3>3, <3>4 DEF StopReturn, ThreadInv, OwnerInv
  <2>3. PoolInv' /\ (\A t \in Own : OwnInv(t))' /\ NamedInv'
    BY <1>9 DEF StopReturn, Inv, TypeOK, PoolInv, OwnInv, NamedInv, Threads, Workers
  <2>. QED
    BY <1>9, <2>1, <2>2, <2>3 DEF StopReturn, Inv
<1>. QED
  BY <1>1, <1>2, <1>3, <1>4, <1>5, <1>6, <1>7, <1>8, <1>9 DEF PoolStep

-----------------------------------------------------------------------------
(* A Thread of the application *)

LEMMA OwnStepInv == ASSUME Inv, NEW t \in Own, SetName(t) \/ OwnStep(t) PROVE Inv'
<1>. USE ThreadAssumption DEF objVars, poolVars, histVars
<1>0. t \in Threads /\ t \notin Workers /\ ThreadInv(t) /\ OwnerInv(t) /\ OwnInv(t)
  BY DEF Inv, Threads, Workers
<1>1. CASE SetName(t)
  <2>1. named' \subseteq Threads
    BY <1>0, <1>1 DEF SetName, Inv, TypeOK
  <2>2. ASSUME obj[t] = "freed", t \notin interrupted PROVE cpc[t] = "gone" /\ m_thread[t]
    BY <1>0, <1>1, <2>2 DEF SetName, OwnInv, Inv, TypeOK
  <2>3. obj[t] = "freed" => cpc[t] = "gone"
    BY <1>0 DEF OwnInv, Inv, TypeOK
  <2>4. NamedInv'
    BY <1>1, <2>2, <2>3 DEF SetName, Inv, NamedInv
  <2>. QED
    BY <1>1, <2>1, <2>4 DEF SetName, Inv, TypeOK, ThreadInv, OwnerInv, PoolInv, OwnInv, Waiting
<1>2. CASE CreateOwn(t)
  <2>1. obj[t] = "none"
    BY <1>0, <1>2 DEF CreateOwn, OwnInv
  <2>2. TypeOK'
    BY <1>0, <1>2 DEF CreateOwn, Construct, Inv, TypeOK, Places
  <2>3. \A u \in Threads : ThreadInv(u)'
    BY <1>0, <1>2, <2>1 DEF CreateOwn, Construct, Inv, TypeOK, ThreadInv, Past
  <2>4. \A u \in Threads : OwnerInv(u)'
    BY <1>0, <1>2, <2>1 DEF CreateOwn, Construct, Inv, TypeOK, OwnerInv, Waiting
  <2>5. PoolInv'
    BY <1>0, <1>2 DEF CreateOwn, Construct, Inv, TypeOK, PoolInv
  <2>6. (\A u \in Own : OwnInv(u))'
    BY <1>0, <1>2 DEF CreateOwn, Construct, Inv, TypeOK, OwnInv, Threads
  <2>7. NamedInv'
    BY <1>0, <1>2 DEF CreateOwn, Construct, Inv, TypeOK, NamedInv, Threads
  <2>. QED
    BY <1>2, <2>2, <2>3, <2>4, <2>5, <2>6, <2>7 DEF CreateOwn, Inv
<1>3. CASE OwnConstructed(t)
  <2>1. tpc[t] \in Past
    BY <1>0, <1>3 DEF OwnConstructed, Waited, ThreadInv
  <2>2. TypeOK'
    BY <1>0, <1>3 DEF OwnConstructed, Waited, Inv, TypeOK
  <2>3. \A u \in Threads : ThreadInv(u)'
    BY <1>0, <1>3, <2>1 DEF OwnConstructed, Waited, Inv, TypeOK, ThreadInv
  <2>4. \A u \in Threads : OwnerInv(u)'
    BY <1>0, <1>3, <2>1 DEF OwnConstructed, Waited, Inv, TypeOK, OwnerInv, Waiting
  <2>5. PoolInv' /\ (\A u \in Own : OwnInv(u))' /\ NamedInv'
    BY <1>0, <1>3 DEF OwnConstructed, Waited, Inv, TypeOK, PoolInv, OwnInv, NamedInv
  <2>. QED
    BY <1>3, <2>2, <2>3, <2>4, <2>5 DEF OwnConstructed, Inv
<1>4. CASE OwnFails(t)
  <2>0. /\ cpc' = [cpc EXCEPT ![t] = "gone"]
        /\ UNCHANGED <<tpc, poolVars, touched, named>>
    BY <1>4 DEF OwnFails
  <2>1. CASE cpc[t] = "out" /\ CreateFails /\ UNCHANGED <<objVars, interrupted>>
    <3>1. TypeOK'
      BY <2>0, <2>1 DEF CreateFails, Inv, TypeOK
    <3>2. \A u \in Threads : Waiting(u)' <=> Waiting(u)
      BY <2>0, <2>1 DEF Inv, TypeOK, Waiting
    <3>. QED
      BY <2>0, <2>1, <3>1, <3>2 DEF Inv, TypeOK, ThreadInv, OwnerInv, PoolInv, OwnInv, NamedInv
  <2>2. CASE cpc[t] = "wait" /\ Interrupted(t)
    <3>1. TypeOK'
      BY <1>0, <2>0, <2>2 DEF Interrupted, Inv, TypeOK
    <3>2. obj[t] = "alive" /\ Waiting(t)
      BY <1>0, <2>2 DEF OwnInv, Waiting
    <3>3. \A u \in Threads : ThreadInv(u)'
      BY <1>0, <2>0, <2>2, <3>2 DEF Interrupted, Inv, TypeOK, ThreadInv
    <3>4. \A u \in Threads : OwnerInv(u)'
      BY <1>0, <2>0, <2>2, <3>2 DEF Interrupted, Inv, TypeOK, OwnerInv, Waiting
    <3>5. PoolInv'
      BY <1>0, <2>0, <2>2 DEF Interrupted, Inv, TypeOK, PoolInv
    <3>6. (\A u \in Own : OwnInv(u))' /\ NamedInv'
      BY <1>0, <2>0, <2>2, <3>2 DEF Interrupted, Inv, TypeOK, OwnInv, NamedInv, Threads
    <3>. QED
      BY <2>0, <2>2, <3>1, <3>3, <3>4, <3>5, <3>6 DEF Interrupted, Inv
  <2>. QED
    BY <1>4, <2>1, <2>2 DEF OwnFails
<1>5. CASE JoinOwn(t)
  <2>1. TypeOK'
    BY <1>0, <1>5 DEF JoinOwn, Inv, TypeOK
  <2>2. obj[t] = "alive" /\ (m_thread[t] \/ tpc[t] = "done")
    BY <1>0, <1>5 DEF JoinOwn, OwnInv
  <2>3. tpc[t] = "done"
    BY <1>5, <2>2 DEF JoinOwn, Joined
  <2>4. (\A u \in Own : OwnInv(u))'
    BY <1>0, <1>5, <2>2, <2>3 DEF JoinOwn, Inv, TypeOK, OwnInv, Threads
  <2>5. \A u \in Threads : Waiting(u)' <=> Waiting(u)
    BY <1>5 DEF JoinOwn, Inv, TypeOK, Waiting
  <2>6. t \notin named
    BY <1>5 DEF JoinOwn, Inv, NamedInv
  <2>7. NamedInv'
    BY <1>0, <1>5, <2>6 DEF JoinOwn, Inv, TypeOK, NamedInv, Threads
  <2>. QED
    BY <1>5, <2>1, <2>4, <2>5, <2>7 DEF JoinOwn, Inv, TypeOK, ThreadInv, OwnerInv, PoolInv
<1>6. CASE DropOwn(t)
  <2>1. TypeOK'
    BY <1>0, <1>6 DEF DropOwn, Inv, TypeOK
  <2>2. obj[t] = "alive"
    BY <1>0, <1>6 DEF DropOwn, OwnInv
  <2>3. (\A u \in Own : OwnInv(u))'
    BY <1>0, <1>6, <2>2 DEF DropOwn, Inv, TypeOK, OwnInv, Threads
  <2>4. \A u \in Threads : Waiting(u)' <=> Waiting(u)
    BY <1>6 DEF DropOwn, Inv, TypeOK, Waiting
  <2>5. ~Waiting(t)
    BY <1>0, <1>6 DEF DropOwn, Waiting
  <2>6. \A u \in Threads : ThreadInv(u)' /\ OwnerInv(u)'
    BY <1>0, <1>6, <2>2, <2>4, <2>5 DEF DropOwn, Inv, TypeOK, ThreadInv, OwnerInv
  <2>7. PoolInv' /\ NamedInv'
    BY <1>0, <1>6 DEF DropOwn, Inv, TypeOK, PoolInv, NamedInv
  <2>. QED
    BY <1>6, <2>1, <2>3, <2>6, <2>7 DEF DropOwn, Inv
<1>. QED
  BY <1>1, <1>2, <1>3, <1>4, <1>5, <1>6 DEF OwnStep

-----------------------------------------------------------------------------
(* The theorems *)

LEMMA InvInductive == Spec => []Inv
<1>1. Init => Inv
  <2>. SUFFICES ASSUME Init PROVE Inv
    OBVIOUS
  <2>1. TypeOK
    <3>1. m_threads \in Seq(0..N) /\ thrs \in Seq(0..N) /\ m_thread_ids \in Seq(BOOLEAN)
      BY DEF Init
    <3>2. idx \in 0..(N + 1) /\ faults \in 0..MaxFaults
      BY ThreadAssumption DEF Init
    <3>3. locked \in BOOLEAN /\ m_stopping \in BOOLEAN
      BY DEF Init
    <3>. QED
      BY <3>1, <3>2, <3>3 DEF Init, TypeOK, Places
  <2>. QED
    BY <2>1, ThreadAssumption DEF Init, Inv, ThreadInv, OwnerInv, PoolInv, OwnInv, NamedInv,
       Waiting, Past, Threads
<1>2. Inv /\ [Next]_vars => Inv'
  <2>. SUFFICES ASSUME Inv, [Next]_vars PROVE Inv'
    OBVIOUS
  <2>1. CASE UNCHANGED vars
    BY <2>1 DEF vars, objVars, poolVars, histVars, Inv, TypeOK, ThreadInv, OwnerInv, PoolInv,
       OwnInv, NamedInv, Waiting
  <2>. QED
    BY <2>1, RunStepInv, PoolStepInv, OwnStepInv DEF Next
<1>. QED
  BY <1>1, <1>2, PTL DEF Spec

\* The fields of Thread and the locals of start() and stop() keep their types;
\* in particular the semaphore is never posted twice, and the loop variables
\* stay in the bounds of the vectors they index.
THEOREM TypeCorrect == Spec => []TypeOK
<1>1. Inv => TypeOK
  BY DEF Inv
<1>. QED
  BY <1>1, InvInductive, PTL

\* The constructor returns only when run() is done with the object, however
\* many Threads there are and whichever calls fail: Thread::run uses no object
\* that is gone, and start() reads no id that is not set.
THEOREM HandshakeCorrect == Spec => []HandshakeHolds
<1>1. Inv => HandshakeHolds
  BY DEF Inv, NamedInv, HandshakeHolds
<1>. QED
  BY <1>1, InvInductive, PTL
=============================================================================
