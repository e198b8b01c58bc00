---------------------------- MODULE TimerProofs -----------------------------
(***************************************************************************)
(* TimerManager loses no timer, has one owner for each and implements      *)
(* TimerService, for every set of timers, any number of threads that poll, *)
(* all periods and every mix of calls: up to a data race in the part of    *)
(* list_expired_cbs that runs without the lock, and without a race when no *)
(* timer is recurring.                                                     *)
(***************************************************************************)
EXTENDS TimerManager, TLAPS

-----------------------------------------------------------------------------
(* The inductive invariant *)

\* A timer is in one place at a time, also while add_timer has it.
Apart ==
    /\ Separate
    /\ \A t \in made : t \notin m_timers /\ \A l \in Listers : t \notin rest[l]

\* Only the unlocked loop has timers in its hands, and all of them are due.
Loops ==
    \A l \in Listers :
        /\ pc[l] \in {"out", "checked"} => rest[l] = {}
        /\ \A t \in rest[l] : tm[t].next <= now_ms[l]
        /\ now_ms[l] <= now

\* A timer in some place has its callback, or was cancelled while it was in
\* the hands of the unlocked loop; one that add_timer has was never cancelled.
Live ==
    \A t \in Timers : /\ Placed(t) => tm[t].cb \/ t \in cancelled
                      /\ t \in made => tm[t].cb

\* A deadline lies at least one period after the time 0.
Deadlines == \A t \in Timers : tm[t].next >= tm[t].ms

\* The callback the unlocked loop has pushed is counted.
Counted == \A t \in Timers : Called(t) /\ tm[t].cb => listed[t] > 0

Inv ==
    /\ TypeOK /\ Apart /\ Loops /\ Live /\ Deadlines
    /\ Kept

-----------------------------------------------------------------------------
(* The calls of the application *)

LEMMA NewTimerInv ==
    ASSUME Inv, NEW t \in Timers, NEW ms \in Periods, NEW recurring \in Kinds,
           NewTimer(t, ms, recurring)
    PROVE  Inv'
<1>. USE TimerAssumption
<1>0. t \notin made /\ t \notin m_timers /\ ~Placed(t)
  BY DEF NewTimer, Unused, Inv, Live, Placed
<1>1. tm' = [tm EXCEPT ![t] = [next |-> now + ms, ms |-> ms, cb |-> TRUE,
                               recurring |-> recurring]]
  BY DEF NewTimer
<1>2. TypeOK'
  <2>1. now + ms \in Nat /\ ms \in Nat /\ recurring \in BOOLEAN
    BY DEF Inv, TypeOK
  <2>2. tm' \in [Timers -> Timer]
    BY <1>1, <2>1 DEF Inv, TypeOK, Timer
  <2>. QED
    BY <2>2 DEF NewTimer, Inv, TypeOK
<1>3. /\ tm'[t].cb = TRUE /\ tm'[t].next = now + ms /\ tm'[t].ms = ms
      /\ \A u \in Timers \ {t} : tm'[u] = tm[u]
  BY <1>1 DEF Inv, TypeOK
<1>4. Apart'
  BY <1>0 DEF NewTimer, Inv, Apart, Separate, Placed
<1>5. Loops'
  BY <1>0, <1>3 DEF NewTimer, Inv, TypeOK, Loops, Placed
<1>6. \A u \in Timers \ {t} : Placed(u)' <=> Placed(u)
  BY DEF NewTimer, Placed
<1>7. Live' /\ Kept'
  BY <1>0, <1>3, <1>6 DEF NewTimer, Inv, TypeOK, Live, Kept, Placed
<1>8. Deadlines'
  BY <1>3 DEF Inv, TypeOK, Deadlines
<1>. QED
  BY <1>2, <1>4, <1>5, <1>7, <1>8 DEF Inv

LEMMA InsertTimerInv == ASSUME Inv, NEW t \in Timers, InsertTimer(t) PROVE Inv'
<1>1. TypeOK'
  BY DEF InsertTimer, Inv, TypeOK
<1>2. \A u \in Timers : Placed(u)' <=> Placed(u)
  BY DEF InsertTimer, Placed
<1>. QED
  BY <1>1, <1>2 DEF InsertTimer, Inv, Apart, Separate, Loops, Live, Deadlines, Kept

LEMMA CancelInv == ASSUME Inv, NEW t \in Timers, Cancel(t) PROVE Inv'
<1>1. /\ tm' = [tm EXCEPT ![t] = Cancelled(t)] /\ m_timers' = m_timers \ {t}
      /\ t \notin made /\ cancelled' = cancelled \cup {t}
  BY DEF Cancel, Cancels, EraseTimer, Known
<1>2. /\ Cancelled(t) \in Timer /\ Cancelled(t).cb = FALSE
      /\ Cancelled(t).next = tm[t].next /\ Cancelled(t).ms = tm[t].ms
      /\ Cancelled(t).recurring = tm[t].recurring
  BY DEF Cancelled, Inv, TypeOK, Timer
<1>3. TypeOK'
  BY <1>1, <1>2 DEF Cancel, Inv, TypeOK
<1>4. /\ tm'[t].cb = FALSE /\ tm'[t].next = tm[t].next /\ tm'[t].ms = tm[t].ms
      /\ \A u \in Timers \ {t} : tm'[u] = tm[u]
  BY <1>1, <1>2 DEF Inv, TypeOK
<1>5. Apart'
  BY <1>1 DEF Cancel, Inv, Apart, Separate
<1>6. Loops' /\ Deadlines'
  BY <1>4 DEF Cancel, Inv, TypeOK, Loops, Deadlines
<1>7. \A u \in Timers \ {t} : Placed(u)' <=> Placed(u)
  BY <1>1 DEF Cancel, Placed
<1>8. Live' /\ Kept'
  BY <1>1, <1>4, <1>7 DEF Cancel, Inv, Live, Kept
<1>. QED
  BY <1>3, <1>5, <1>6, <1>8 DEF Inv

\* refresh and reset give a timer of the set a new deadline.
LEMMA RearmInv ==
    ASSUME Inv, NEW t \in m_timers, NEW next \in Nat, NEW ms \in Nat, next >= ms,
           tm' = [tm EXCEPT ![t].next = next, ![t].ms = ms],
           rearms' \in 0..MaxRearms,
           UNCHANGED <<now, made, m_timers, pc, now_ms, rest, cancelled, listed, crash,
                       raced>>
    PROVE  Inv'
<1>0. t \in Timers /\ \A l \in Listers : t \notin rest[l]
  BY DEF Inv, TypeOK, Apart, Separate
<1>1. TypeOK'
  BY <1>0 DEF Inv, TypeOK, Timer
<1>2. /\ tm'[t].cb = tm[t].cb /\ tm'[t].recurring = tm[t].recurring
      /\ tm'[t].next = next /\ tm'[t].ms = ms
      /\ \A u \in Timers \ {t} : tm'[u] = tm[u]
  BY <1>0 DEF Inv, TypeOK, Timer
<1>3. Apart'
  BY DEF Inv, Apart, Separate
<1>4. Loops' /\ Deadlines'
  BY <1>0, <1>2 DEF Inv, TypeOK, Loops, Deadlines
<1>5. \A u \in Timers : Placed(u)' <=> Placed(u)
  BY DEF Placed
<1>6. Live' /\ Kept'
  BY <1>0, <1>2, <1>5 DEF Inv, Live, Kept
<1>. QED
  BY <1>1, <1>3, <1>4, <1>6 DEF Inv

LEMMA RefreshInv == ASSUME Inv, NEW t \in Timers, Refresh(t) PROVE Inv'
<1>1. now + tm[t].ms \in Nat /\ tm[t].ms \in Nat /\ now + tm[t].ms >= tm[t].ms
  BY DEF Inv, TypeOK, Timer
<1>2. tm' = [tm EXCEPT ![t].next = now + tm[t].ms, ![t].ms = tm[t].ms]
  BY DEF Refresh, Inv, TypeOK, Timer
<1>3. rearms' \in 0..MaxRearms
  BY TimerAssumption DEF Refresh, Inv, TypeOK
<1>. QED
  BY <1>1, <1>2, <1>3, RearmInv DEF Refresh

LEMMA ResetTimerInv ==
    ASSUME Inv, NEW t \in Timers, NEW ms \in Periods, NEW from_now \in BOOLEAN,
           ResetTimer(t, ms, from_now)
    PROVE  Inv'
<1>1. ms \in Nat /\ NewDeadline(t, ms, from_now) \in Nat /\ NewDeadline(t, ms, from_now) >= ms
  BY TimerAssumption DEF NewDeadline, Inv, TypeOK, Timer, Deadlines
<1>2. rearms' \in 0..MaxRearms
  BY TimerAssumption DEF ResetTimer, Inv, TypeOK
<1>. QED
  BY <1>1, <1>2, RearmInv DEF ResetTimer

-----------------------------------------------------------------------------
(* list_expired_cbs *)

LEMMA CheckEmptyInv == ASSUME Inv, NEW l \in Listers, CheckEmpty(l) PROVE Inv'
<1>1. TypeOK'
  BY TimerAssumption DEF CheckEmpty, Inv, TypeOK
<1>2. Loops'
  BY DEF CheckEmpty, Inv, TypeOK, Loops
<1>3. \A u \in Timers : Placed(u)' <=> Placed(u)
  BY DEF CheckEmpty, Placed
<1>. QED
  BY <1>1, <1>2, <1>3 DEF CheckEmpty, Inv, Apart, Separate, Live, Deadlines, Kept

\* What a visit changes in a timer: its callback or its deadline.
LEMMA VisitedFacts ==
    ASSUME Inv, NEW t \in Timers, NEW l \in Listers
    PROVE  LET v == Visited(t, now_ms[l])
           IN  /\ v \in Timer /\ v.recurring = tm[t].recurring
               /\ v.ms = tm[t].ms /\ v.next >= v.ms
               /\ tm[t].recurring => v.cb = tm[t].cb /\ v.next = now_ms[l] + tm[t].ms
               /\ ~tm[t].recurring => v.cb = FALSE /\ v.next = tm[t].next
<1>1. tm[t] \in Timer /\ now_ms[l] \in Nat /\ tm[t].next >= tm[t].ms
  BY TimerAssumption DEF Inv, TypeOK, Deadlines
<1>2. CASE tm[t].recurring
  <2>1. Visited(t, now_ms[l]) = [tm[t] EXCEPT !.next = now_ms[l] + tm[t].ms]
    BY <1>2 DEF Visited
  <2>2. now_ms[l] + tm[t].ms \in Nat /\ now_ms[l] + tm[t].ms >= tm[t].ms
    BY <1>1 DEF Timer
  <2>3. [tm[t] EXCEPT !.next = now_ms[l] + tm[t].ms] \in Timer
    BY <1>1, <2>2 DEF Timer
  <2>. QED
    BY <1>1, <1>2, <2>1, <2>2, <2>3 DEF Timer
<1>3. CASE ~tm[t].recurring
  BY <1>1, <1>3 DEF Visited, Timer
<1>. QED
  BY <1>2, <1>3

\* The section under the write lock with something to extract.
LEMMA ExtractInv ==
    ASSUME Inv, NEW l \in Listers, pc[l] = "checked",
           NEW E \in SUBSET m_timers, ExpiredRange(E, now_ms[l]),
           NEW P, P = LockedPart(E),
           tm' = [t \in Timers |-> IF t \in P THEN Visited(t, now_ms[l]) ELSE tm[t]],
           listed' = [t \in Timers |-> IF t \in P /\ tm[t].cb
                                      THEN listed[t] + 1 ELSE listed[t]],
           m_timers' = EraseRange(E) \cup PutsBack(P),
           rest' = [rest EXCEPT ![l] = E \ P],
           pc' = [pc EXCEPT ![l] = IF E = P THEN "out" ELSE "loop"],
           UNCHANGED <<now, made, now_ms, cancelled, rearms, crash, raced>>
    PROVE  Inv'
<1>0. /\ E \subseteq m_timers /\ P \subseteq E /\ E \subseteq Timers
      /\ rest[l] = {}
      /\ \A t \in E : tm[t].next <= now_ms[l]
  BY DEF ExpiredRange, LockedPart, Inv, TypeOK, Loops
<1>1. \A t \in P : /\ tm'[t] \in Timer /\ tm'[t].recurring = tm[t].recurring
                   /\ tm'[t].next >= tm'[t].ms
                   /\ tm[t].recurring => tm'[t].cb = tm[t].cb
                   /\ ~tm[t].recurring => tm'[t].cb = FALSE
  BY <1>0, VisitedFacts
<1>2. \A t \in Timers \ P : tm'[t] = tm[t]
  OBVIOUS
<1>3. /\ rest'[l] = E \ P
      /\ \A k \in Listers \ {l} : rest'[k] = rest[k] /\ pc'[k] = pc[k]
      /\ pc'[l] = "out" => rest'[l] = {}
      /\ pc'[l] \in {"out", "loop"}
  BY <1>0 DEF Inv, TypeOK
<1>4. \A t \in m_timers' : t \in m_timers /\ (t \in E => t \in P /\ tm[t].recurring)
  BY <1>0 DEF EraseRange, PutsBack
<1>4a. \A t \in m_timers : t \in E \/ t \in m_timers'
  BY DEF EraseRange
<1>4b. \A t \in P : tm[t].recurring => t \in m_timers'
  BY DEF PutsBack
<1>5. TypeOK'
  <2>1. tm' \in [Timers -> Timer]
    BY <1>0, <1>1, <1>2 DEF Inv, TypeOK
  <2>2. listed' \in [Timers -> Nat]
    BY DEF Inv, TypeOK
  <2>3. m_timers' \subseteq Timers
    BY <1>4 DEF Inv, TypeOK
  <2>4. rest' \in [Listers -> SUBSET Timers]
    BY <1>0 DEF Inv, TypeOK
  <2>5. pc' \in [Listers -> {"out", "checked", "loop", "copying", "pushed",
                         "settling"}]
    BY DEF Inv, TypeOK
  <2>. QED
    BY <2>1, <2>2, <2>3, <2>4, <2>5 DEF Inv, TypeOK
<1>6. Apart'
  <2>1. \A t \in m_timers', k \in Listers : t \notin rest'[k]
    BY <1>3, <1>4 DEF Inv, Apart, Separate
  <2>2. \A j, k \in Listers : j # k => rest'[j] \cap rest'[k] = {}
    BY <1>0, <1>3 DEF Inv, Apart, Separate
  <2>3. \A t \in made' : t \notin m_timers' /\ \A k \in Listers : t \notin rest'[k]
    BY <1>0, <1>3, <1>4 DEF Inv, Apart
  <2>. QED
    BY <2>1, <2>2, <2>3 DEF Apart, Separate
<1>7. Loops'
  <2>. SUFFICES ASSUME NEW k \in Listers
                PROVE  /\ pc'[k] \in {"out", "checked"} => rest'[k] = {}
                       /\ \A t \in rest'[k] : tm'[t].next <= now_ms'[k]
                       /\ now_ms'[k] <= now'
    BY DEF Loops
  <2>1. CASE k = l
    BY <1>0, <1>2, <1>3, <2>1 DEF Inv, Loops
  <2>2. CASE k # l
    <3>1. \A t \in rest[k] : t \in Timers /\ t \notin m_timers
      BY DEF Inv, TypeOK, Apart, Separate
    <3>. QED
      BY <1>0, <1>2, <1>3, <2>2, <3>1 DEF Inv, Loops
  <2>. QED
    BY <2>1, <2>2
<1>8. \A t \in Timers : Placed(t)' => Placed(t)
  BY <1>0, <1>3, <1>4 DEF Placed
<1>9. \A t \in Timers : Placed(t) /\ ~Placed(t)' => t \in P /\ ~tm[t].recurring
  BY <1>0, <1>3, <1>4a, <1>4b DEF Placed
<1>10. Live'
  <2>1. \A t \in made : t \notin P
    BY <1>0 DEF Inv, Apart
  <2>2. \A t \in P : t \in m_timers' => tm[t].recurring
    BY <1>0, <1>4
  <2>3. \A t \in P : \A k \in Listers : t \notin rest'[k]
    BY <1>0, <1>3 DEF Inv, Apart, Separate
  <2>4. \A t \in P : Placed(t)' => tm[t].recurring
    BY <2>1, <2>2, <2>3 DEF Placed
  <2>. QED
    BY <1>0, <1>1, <1>2, <1>8, <2>1, <2>4 DEF Inv, Live
<1>11. Kept'
  BY <1>0, <1>1, <1>2, <1>4, <1>9 DEF Inv, Kept
<1>12. Deadlines'
  BY <1>0, <1>1, <1>2 DEF Inv, Deadlines
<1>. QED
  BY <1>5, <1>6, <1>7, <1>10, <1>11, <1>12 DEF Inv

\* The loop without the lock hands out the callback of the next timer ...
LEMMA ProceedInv ==
    ASSUME Inv, NEW l \in Listers, NEW from, NEW to \in {"copying", "pushed", "settling"},
           Proceed(l, from, to), listed' \in [Timers -> Nat]
    PROVE  Inv'
<1>1. TypeOK'
  BY DEF Proceed, Inv, TypeOK
<1>2. \A u \in Timers : Placed(u)' <=> Placed(u)
  BY DEF Proceed, Placed
<1>3. Loops'
  BY DEF Proceed, Inv, TypeOK, Loops
<1>. QED
  BY <1>1, <1>2, <1>3 DEF Proceed, Inv, Apart, Separate, Live, Deadlines, Kept

LEMMA PushInv == ASSUME Inv, NEW l \in Listers, Push(l) PROVE Inv'
<1>1. listed' \in [Timers -> Nat]
  BY DEF Push, Inv, TypeOK
<1>. QED
  BY <1>1, ProceedInv DEF Push

\* ... and puts the timer back into the set, or lets go of it.
LEMMA PutBackInv ==
    ASSUME Inv, NEW l \in Listers, NEW t \in rest[l],
           tm' = [tm EXCEPT ![t] = Visited(t, now_ms[l])],
           m_timers' = m_timers \cup PutsBack({t}),
           rest' = [rest EXCEPT ![l] = @ \ {t}],
           pc' = [pc EXCEPT ![l] = IF rest[l] = {t} THEN "out" ELSE "loop"],
           UNCHANGED <<now, made, now_ms, cancelled, listed, rearms, crash, raced>>
    PROVE  Inv'
<1>0. t \in Timers /\ t \notin m_timers /\ t \notin made
  BY DEF Inv, TypeOK, Apart, Separate
<1>1. /\ tm'[t] \in Timer /\ tm'[t].recurring = tm[t].recurring
      /\ tm'[t].next >= tm'[t].ms
      /\ tm[t].recurring => tm'[t].cb = tm[t].cb
      /\ ~tm[t].recurring => tm'[t].cb = FALSE
  BY <1>0, VisitedFacts DEF Inv, TypeOK
<1>2. \A u \in Timers \ {t} : tm'[u] = tm[u]
  BY DEF Inv, TypeOK
<1>3. /\ rest'[l] = rest[l] \ {t}
      /\ \A k \in Listers \ {l} : rest'[k] = rest[k] /\ pc'[k] = pc[k]
      /\ pc'[l] = "out" => rest'[l] = {}
      /\ pc'[l] \in {"out", "loop"}
  BY DEF Inv, TypeOK
<1>4. m_timers' = IF tm[t].recurring THEN m_timers \cup {t} ELSE m_timers
  BY DEF PutsBack
<1>5. TypeOK'
  <2>1. tm' \in [Timers -> Timer]
    BY <1>0, <1>1, <1>2 DEF Inv, TypeOK
  <2>2. m_timers' \subseteq Timers
    BY <1>0, <1>4 DEF Inv, TypeOK
  <2>3. rest' \in [Listers -> SUBSET Timers]
    BY DEF Inv, TypeOK
  <2>4. pc' \in [Listers -> {"out", "checked", "loop", "copying", "pushed",
                         "settling"}]
    BY DEF Inv, TypeOK
  <2>. QED
    BY <2>1, <2>2, <2>3, <2>4 DEF Inv, TypeOK
<1>6. \A k \in Listers : t \notin rest'[k]
  BY <1>3 DEF Inv, Apart, Separate
<1>7. Apart'
  <2>1. \A u \in m_timers', k \in Listers : u \notin rest'[k]
    BY <1>3, <1>4, <1>6 DEF Inv, Apart, Separate
  <2>2. \A j, k \in Listers : j # k => rest'[j] \cap rest'[k] = {}
    BY <1>3 DEF Inv, Apart, Separate
  <2>3. \A u \in made' : u \notin m_timers' /\ \A k \in Listers : u \notin rest'[k]
    BY <1>0, <1>3, <1>4 DEF Inv, Apart
  <2>. QED
    BY <2>1, <2>2, <2>3 DEF Apart, Separate
<1>8. Loops'
  BY <1>2, <1>3, <1>6 DEF Inv, TypeOK, Loops
<1>9. \A u \in Timers \ {t} : Placed(u)' <=> Placed(u)
  BY <1>3, <1>4 DEF Placed
<1>10. Placed(t)' <=> tm[t].recurring
  BY <1>0, <1>4, <1>6 DEF Placed
<1>11. Placed(t)
  BY DEF Placed
<1>12. Live' /\ Kept'
  BY <1>0, <1>1, <1>2, <1>4, <1>9, <1>10, <1>11 DEF Inv, Live, Kept
<1>13. Deadlines'
  BY <1>0, <1>1, <1>2 DEF Inv, Deadlines
<1>. QED
  BY <1>5, <1>7, <1>8, <1>12, <1>13 DEF Inv

LEMMA ListStepInv == ASSUME Inv, NEW l \in Listers, ListStep(l) PROVE Inv'
<1>1. CASE Extract(l)
  <2>1. CASE m_timers = {}
    BY <1>1, <2>1 DEF Extract, Inv, TypeOK, Apart, Separate, Loops, Live, Deadlines,
       Kept, Placed
  <2>2. CASE m_timers # {} /\ \A t \in m_timers : tm[t].next > now_ms[l]
    <3>1. TypeOK' /\ Loops'
      BY <1>1, <2>2 DEF Extract, Inv, TypeOK, Loops
    <3>. QED
      BY <1>1, <2>2, <3>1 DEF Extract, Inv, Apart, Separate, Live, Deadlines, Kept,
         Placed
  <2>3. CASE m_timers # {} /\ ~\A t \in m_timers : tm[t].next > now_ms[l]
    BY <1>1, <2>3, ExtractInv DEF Extract
  <2>. QED
    BY <2>1, <2>2, <2>3
<1>2. CASE PutBack(l)
  BY <1>2, PutBackInv DEF PutBack
<1>3. CASE StartPush(l) \/ StartPutBack(l)
  BY <1>3, ProceedInv DEF StartPush, StartPutBack, Inv, TypeOK
<1>. QED
  BY <1>1, <1>2, <1>3, CheckEmptyInv, PushInv DEF ListStep

-----------------------------------------------------------------------------
(* The safety theorems *)

LEMMA InvInit == Init => Inv
<1>. SUFFICES ASSUME Init PROVE Inv
  OBVIOUS
<1>1. TypeOK
  <2>1. tm \in [Timers -> Timer]
    BY DEF Init, Timer
  <2>2. now \in 0..MaxTime /\ rearms \in 0..MaxRearms
    BY TimerAssumption DEF Init
  <2>. QED
    BY <2>1, <2>2, TimerAssumption DEF Init, TypeOK
<1>2. \A t \in Timers : ~Placed(t) /\ tm[t].cb = FALSE /\ tm[t].next = 0 /\ tm[t].ms = 0
  BY DEF Init, Placed
<1>. QED
  BY <1>1, <1>2 DEF Init, Inv, Apart, Separate, Loops, Live, Deadlines, Kept

LEMMA InvStep == ASSUME Inv, [Next]_vars, ~raced' PROVE Inv'
<1>1. CASE Tick
  <2>1. TypeOK' /\ Loops'
    BY <1>1, TimerAssumption DEF Tick, Inv, TypeOK, Loops
  <2>. QED
    BY <1>1, <2>1 DEF Tick, Inv, Apart, Separate, Live, Deadlines, Kept, Placed
<1>2. CASE UNCHANGED vars
  BY <1>2 DEF vars, Inv, TypeOK, Apart, Separate, Loops, Live, Deadlines, Kept, Placed
<1>3. CASE AppStep
  BY <1>3, NewTimerInv, InsertTimerInv, CancelInv, RefreshInv, ResetTimerInv DEF AppStep
<1>4. CASE \E l \in Listers : ListStep(l)
  BY <1>4, ListStepInv
<1>5. ~Clash
  BY DEF Clash
<1>. QED
  BY <1>1, <1>2, <1>3, <1>4, <1>5 DEF Next, Step, Over

\* A race is final: only a clash makes one, and nothing is done afterwards.
LEMMA RaceIsFinal ==
    ASSUME TypeOK, [Next]_vars
    PROVE  /\ ~raced' => ~raced
           /\ raced' => TypeOK'
<1>1. CASE UNCHANGED vars
  BY <1>1 DEF vars, TypeOK
<1>2. CASE ~raced /\ Clash
  BY <1>2 DEF Clash, TypeOK
<1>3. CASE ~raced /\ ~raced'
  BY <1>3
<1>4. CASE Step
  <2>1. Tick \/ AppStep => UNCHANGED raced
    BY DEF Tick, AppStep, NewTimer, InsertTimer, Cancel, Refresh, ResetTimer
  <2>2. ASSUME NEW l \in Listers PROVE ListStep(l) => UNCHANGED raced
    BY DEF ListStep, CheckEmpty, Extract, StartPush, Push, StartPutBack, PutBack, Proceed
  <2>. QED
    BY <1>2, <1>3, <1>4, <2>1, <2>2 DEF Step
<1>. QED
  BY <1>1, <1>4 DEF Next, Over

\* The invariant holds until a race happens.
UpToRace == TypeOK /\ (~raced => Inv)

LEMMA InvInductive == Spec => []UpToRace
<1>1. Init => UpToRace
  BY InvInit DEF UpToRace, Inv
<1>2. UpToRace /\ [Next]_vars => UpToRace'
  <2>. SUFFICES ASSUME UpToRace, [Next]_vars PROVE UpToRace'
    OBVIOUS
  <2>1. CASE raced'
    BY <2>1, RaceIsFinal DEF UpToRace
  <2>2. CASE ~raced'
    BY <2>2, RaceIsFinal, InvStep DEF UpToRace, Inv
  <2>. QED
    BY <2>1, <2>2
<1>. QED
  BY <1>1, <1>2, PTL DEF Spec

\* Timers keep their types whatever the order of calls: in particular reset()
\* without from_now never moves a deadline below 0.
THEOREM TypeCorrect == Spec => []TypeOK
<1>1. UpToRace => TypeOK
  BY DEF UpToRace
<1>. QED
  BY <1>1, InvInductive, PTL

\* Until the unlocked part of list_expired_cbs races with another thread, a
\* timer that was added and is neither cancelled nor done is in m_timers or on
\* its way into it, with any number of threads in list_expired_cbs and any
\* calls of cancel, refresh and reset between their steps.
THEOREM TimersKept == Spec => []NoTimerLost
<1>1. UpToRace => NoTimerLost
  BY DEF UpToRace, Inv, NoTimerLost
<1>. QED
  BY <1>1, InvInductive, PTL

\* Until a race, the loop of list_expired_cbs that add_timer has left without
\* the lock works on timers no other thread can reach through the set.
THEOREM OwnersApart == Spec => []OneOwner
<1>1. UpToRace => OneOwner
  BY DEF UpToRace, Inv, Apart, OneOwner
<1>. QED
  BY <1>1, InvInductive, PTL

-----------------------------------------------------------------------------
(* Without recurring timers *)

\* add_timer is never called with the lock of list_expired_cbs, so nobody is in
\* the unlocked part.
AllOnce ==
    /\ ~raced
    /\ \A t \in Timers : ~tm[t].recurring
    /\ \A l \in Listers : pc[l] \in {"out", "checked"}

LEMMA OnceTm ==
    ASSUME TRUE \notin Kinds, Inv, AllOnce, Step
    PROVE  \A t \in Timers : ~tm'[t].recurring
<1>1. CASE Tick \/ Clash
  BY <1>1 DEF Tick, Clash, AllOnce
<1>2. CASE AppStep
  <2>1. PICK t \in Timers :
            \/ \E ms \in Periods, recurring \in Kinds : NewTimer(t, ms, recurring)
            \/ InsertTimer(t) \/ Cancel(t) \/ Refresh(t)
            \/ \E ms \in Periods, from_now \in BOOLEAN : ResetTimer(t, ms, from_now)
    BY <1>2 DEF AppStep
  <2>2. ASSUME NEW ms \in Periods, NEW recurring \in Kinds, NewTimer(t, ms, recurring)
        PROVE  \A u \in Timers : ~tm'[u].recurring
    <3>1. recurring = FALSE
      BY TimerAssumption
    <3>. QED
      BY <2>2, <3>1 DEF NewTimer, AllOnce, Inv, TypeOK
  <2>3. CASE InsertTimer(t)
    BY <2>3 DEF InsertTimer, AllOnce
  <2>4. CASE Cancel(t)
    BY <2>4 DEF Cancel, Cancelled, AllOnce, Inv, TypeOK, Timer
  <2>5. CASE Refresh(t)
    BY <2>5 DEF Refresh, AllOnce, Inv, TypeOK, Timer
  <2>6. ASSUME NEW ms \in Periods, NEW from_now \in BOOLEAN, ResetTimer(t, ms, from_now)
        PROVE  \A u \in Timers : ~tm'[u].recurring
    BY <2>6 DEF ResetTimer, AllOnce, Inv, TypeOK, Timer
  <2>. QED
    BY <2>1, <2>2, <2>3, <2>4, <2>5, <2>6
<1>3. ASSUME NEW l \in Listers, ListStep(l) PROVE \A t \in Timers : ~tm'[t].recurring
  <2>1. CASE CheckEmpty(l)
    BY <2>1 DEF CheckEmpty, AllOnce
  <2>2. CASE Extract(l)
    <3>1. \A t \in Timers : Visited(t, now_ms[l]).recurring = tm[t].recurring
      BY <1>3, VisitedFacts
    <3>2. \A t \in Timers : tm'[t] \in {tm[t], Visited(t, now_ms[l])}
      BY <2>2 DEF Extract
    <3>. QED
      BY <3>1, <3>2 DEF AllOnce
  <2>. QED
    BY <1>3, <2>1, <2>2 DEF ListStep, AllOnce, StartPush, Push, StartPutBack, PutBack, Proceed
<1>. QED
  BY <1>1, <1>2, <1>3 DEF Step

LEMMA OncePc ==
    ASSUME Inv, AllOnce, Step
    PROVE  ~raced' /\ \A l \in Listers : pc'[l] \in {"out", "checked"}
<1>1. ~Clash
  BY DEF Clash, Inserting, CbInUse, AllOnce
<1>2. CASE Tick
  BY <1>2 DEF Tick, AllOnce
<1>3. CASE AppStep
  <2>1. UNCHANGED <<pc, raced>>
    BY <1>3 DEF AppStep, NewTimer, InsertTimer, Cancel, Refresh, ResetTimer
  <2>. QED
    BY <2>1 DEF AllOnce
<1>4. ASSUME NEW l \in Listers, ListStep(l)
      PROVE  ~raced' /\ \A k \in Listers : pc'[k] \in {"out", "checked"}
  <2>1. CASE CheckEmpty(l)
    BY <2>1 DEF CheckEmpty, AllOnce, Inv, TypeOK
  <2>2. CASE Extract(l)
    <3>1. \A E \in SUBSET m_timers : LockedPart(E) = E
      BY DEF LockedPart, AllOnce, Inv, TypeOK
    <3>2. pc' = pc \/ pc' = [pc EXCEPT ![l] = "out"]
      BY <2>2, <3>1 DEF Extract
    <3>. QED
      BY <2>2, <3>2 DEF Extract, AllOnce, Inv, TypeOK
  <2>. QED
    BY <1>4, <2>1, <2>2 DEF ListStep, AllOnce, StartPush, Push, StartPutBack, PutBack, Proceed
<1>. QED
  BY <1>1, <1>2, <1>3, <1>4 DEF Step

\* When no timer is recurring list_expired_cbs keeps its lock to the end: no
\* race is possible, whatever the threads do, and no timer is ever lost.
THEOREM OneShotTimersKept ==
    ASSUME TRUE \notin Kinds
    PROVE  Spec => [](NoTimerLost /\ ~raced)
<1>1. Init => AllOnce
  BY DEF Init, AllOnce
<1>2. UpToRace /\ AllOnce /\ [Next]_vars => AllOnce'
  <2>. SUFFICES ASSUME UpToRace, AllOnce, [Next]_vars PROVE AllOnce'
    OBVIOUS
  <2>1. Inv
    BY DEF UpToRace, AllOnce
  <2>2. CASE Step
    BY <2>1, <2>2, OnceTm, OncePc DEF AllOnce
  <2>3. CASE UNCHANGED vars
    BY <2>3 DEF vars, AllOnce
  <2>. QED
    BY <2>2, <2>3 DEF Next, Over
<1>3. UpToRace /\ AllOnce => NoTimerLost /\ ~raced
  BY DEF UpToRace, AllOnce, Inv, NoTimerLost
<1>. QED
  BY <1>1, <1>2, <1>3, InvInductive, PTL DEF Spec

-----------------------------------------------------------------------------
(* TimerManager implements TimerService: what a timer is to its user *)

\* The rows of Status.
StatusTable ==
    \A t \in Timers :
        /\ Unused(t) => Status(t) = "new"
        /\ ~Unused(t) /\ ~tm[t].cb => Status(t) = "off"
        /\ tm[t].cb /\ Called(t) => Status(t) = "listed"
        /\ tm[t].cb /\ ~Called(t) /\ Placed(t) => Status(t) = "armed"

LEMMA StatusRows == StatusTable
<1>. SUFFICES ASSUME NEW t \in Timers
              PROVE  /\ Unused(t) => Status(t) = "new"
                     /\ ~Unused(t) /\ ~tm[t].cb => Status(t) = "off"
                     /\ tm[t].cb /\ Called(t) => Status(t) = "listed"
                     /\ tm[t].cb /\ ~Called(t) /\ Placed(t) => Status(t) = "armed"
  BY DEF StatusTable
<1>1. Unused(t) => ~tm[t].cb
  BY DEF Unused
<1>2. ASSUME Unused(t) PROVE Status(t) = "new"
  BY <1>1, <1>2, Zenon DEF Status
<1>3. ASSUME ~Unused(t), ~tm[t].cb PROVE Status(t) = "off"
  BY <1>3, Zenon DEF Status
<1>4. ASSUME tm[t].cb, Called(t) PROVE Status(t) = "listed"
  BY <1>1, <1>4, Zenon DEF Status
<1>5. ASSUME tm[t].cb, ~Called(t), Placed(t) PROVE Status(t) = "armed"
  BY <1>1, <1>5, Zenon DEF Status
<1>. QED
  BY <1>2, <1>3, <1>4, <1>5

LEMMA StatusRowsNext == StatusTable'
  BY StatusRows, PTL

\* A timer in some place is not a new one.
LEMMA PlacedIsUsed == ASSUME Inv, NEW t \in Timers, Placed(t) PROVE ~Unused(t)
  BY DEF Inv, Live, Unused

\* A timer whose callback was pushed is in the hands of the unlocked loop.
LEMMA CalledIsPlaced == ASSUME Inv, NEW t \in Timers, Called(t) PROVE Placed(t)
  BY DEF Called, IsFirst, Placed

\* A timer whose own state, places and history do not change is to its user
\* what it was.
LEMMA StatusFrame ==
    ASSUME Inv, Inv', NEW t \in Timers,
           tm'[t].cb = tm[t].cb, tm'[t].ms = tm[t].ms \/ Placed(t),
           listed'[t] = listed[t] \/ Placed(t),
           t \in cancelled' <=> t \in cancelled,
           Placed(t)' <=> Placed(t), Called(t)' <=> Called(t)
    PROVE  Status(t)' = Status(t)
<1>1. Placed(t) => ~Unused(t) /\ ~Unused(t)'
  BY DEF Inv, Live, Unused
<1>2. ~Placed(t) => t \notin made \cup m_timers /\ t \notin made' \cup m_timers'
  BY DEF Placed
<1>3. Unused(t)' <=> Unused(t)
  BY <1>1, <1>2 DEF Unused
<1>4. tm[t].cb => Placed(t)
  BY DEF Inv, Kept
<1>. QED
  BY <1>3, <1>4, StatusRows, StatusRowsNext DEF StatusTable

\* The timers in the hands of the unlocked loop stay where they are.
LEMMA CalledFrame ==
    ASSUME Inv,
           \A l \in Listers :
               /\ pc'[l] \in {"pushed", "settling"} <=> pc[l] \in {"pushed", "settling"}
               /\ pc[l] \in {"pushed", "settling"} =>
                      /\ rest'[l] = rest[l]
                      /\ \A u \in rest[l] : tm'[u].next = tm[u].next
    PROVE  \A t \in Timers : Called(t)' <=> Called(t)
  BY DEF Called, IsFirst, Before

\* A step that calls no further timer, counts no callback less and gives no
\* timer in the hands of the unlocked loop a callback keeps Counted.
LEMMA CountedFrame ==
    ASSUME Inv, Counted,
           \A t \in Timers : /\ Called(t)' => Called(t)
                             /\ Called(t) /\ tm'[t].cb => tm[t].cb
                             /\ listed'[t] >= listed[t] /\ listed'[t] \in Nat
    PROVE  Counted'
  BY DEF Counted, Inv, TypeOK

-----------------------------------------------------------------------------
(* ... and every step is one of TimerService, or changes nothing for the user *)

\* Nothing changes for the user when no timer does.
LEMMA Stutters ==
    ASSUME \A u \in Timers : /\ Status(u)' = Status(u)
                             /\ tm'[u].cb = tm[u].cb
                             /\ tm'[u].next = tm[u].next \/ ~tm[u].cb
                             /\ tm'[u].recurring = tm[u].recurring,
           now' = now, listed' = listed
    PROVE  UNCHANGED Service!vars
<1>1. [u \in Timers |-> Status(u)]' = [u \in Timers |-> Status(u)]
  OBVIOUS
<1>2. [u \in Timers |-> IF tm[u].recurring THEN "recurring" ELSE "once"]'
        = [u \in Timers |-> IF tm[u].recurring THEN "recurring" ELSE "once"]
  OBVIOUS
<1>3. [u \in Timers |-> IF tm[u].cb THEN tm[u].next ELSE 0]'
        = [u \in Timers |-> IF tm[u].cb THEN tm[u].next ELSE 0]
  OBVIOUS
<1>. QED
  BY <1>1, <1>2, <1>3 DEF Service!vars

LEMMA NewTimerArms ==
    ASSUME Inv, Inv', Counted, NEW t \in Timers, NEW ms \in Periods, NEW recurring \in Kinds,
           NewTimer(t, ms, recurring)
    PROVE  Service!Arm(t) /\ Counted'
<1>0. t \notin made /\ t \notin m_timers /\ ~Placed(t) /\ Unused(t)
  BY DEF NewTimer, Unused, Inv, Live, Placed
<1>1. /\ tm'[t].cb = TRUE /\ tm'[t].next = now + ms /\ ms \in Nat
      /\ \A u \in Timers \ {t} : tm'[u] = tm[u]
  BY TimerAssumption DEF NewTimer, Inv, TypeOK
<1>2. \A u \in Timers : Called(u)' <=> Called(u)
  <2>1. \A l \in Listers : \A u \in rest[l] : u # t /\ u \in Timers
    BY <1>0 DEF Placed, Inv, TypeOK
  <2>. QED
    BY <1>1, <2>1, CalledFrame DEF NewTimer
<1>3. \A u \in Timers \ {t} : Placed(u)' <=> Placed(u)
  BY DEF NewTimer, Placed
<1>4. \A u \in Timers \ {t} : Status(u)' = Status(u)
  BY <1>1, <1>2, <1>3, StatusFrame DEF NewTimer
<1>5. Status(t) = "new"
  BY <1>0, StatusRows DEF StatusTable
<1>6. ~Called(t)' /\ Placed(t)'
  BY <1>0, <1>2, CalledIsPlaced DEF NewTimer, Placed
<1>7. Status(t)' = "armed"
  BY <1>1, <1>6, StatusRowsNext DEF StatusTable
<1>8. now + ms >= now /\ now' = now /\ listed' = listed
  BY <1>1 DEF NewTimer, Inv, TypeOK
<1>9. Counted'
  <2>1. ~Called(t)
    BY <1>0, CalledIsPlaced
  <2>. QED
    BY <1>1, <1>2, <1>8, <2>1, CountedFrame DEF Inv, TypeOK
<1>. QED
  BY <1>9, <1>1, <1>4, <1>5, <1>7, <1>8 DEF Service!Arm, Service!Only, Service!Untouched

LEMMA InsertTimerStutters ==
    ASSUME Inv, Inv', Counted, NEW t \in Timers, InsertTimer(t)
    PROVE  UNCHANGED Service!vars /\ Counted'
<1>1. \A u \in Timers : Called(u)' <=> Called(u)
  BY CalledFrame DEF InsertTimer
<1>2. \A u \in Timers : Placed(u)' <=> Placed(u)
  BY DEF InsertTimer, Placed
<1>3. \A u \in Timers : Status(u)' = Status(u)
  BY <1>1, <1>2, StatusFrame DEF InsertTimer
<1>4. Counted'
  BY <1>1, CountedFrame DEF InsertTimer, Inv, TypeOK
<1>. QED
  BY <1>4, <1>3, Stutters DEF InsertTimer

LEMMA CancelCancels ==
    ASSUME Inv, Inv', Counted, NEW t \in Timers, Cancel(t)
    PROVE  Service!Cancel(t) /\ Counted'
<1>1. /\ tm' = [tm EXCEPT ![t] = Cancelled(t)] /\ m_timers' = m_timers \ {t}
      /\ tm[t].cb /\ t \notin made /\ cancelled' = cancelled \cup {t}
  BY DEF Cancel, Cancels, EraseTimer, Known
<1>2. /\ Cancelled(t).cb = FALSE /\ Cancelled(t).next = tm[t].next
      /\ Cancelled(t).recurring = tm[t].recurring
  BY DEF Cancelled, Inv, TypeOK, Timer
<1>3. /\ tm'[t].cb = FALSE /\ tm'[t].next = tm[t].next
      /\ tm'[t].recurring = tm[t].recurring
      /\ \A u \in Timers \ {t} : tm'[u] = tm[u]
  BY <1>1, <1>2 DEF Inv, TypeOK
<1>4. \A u \in Timers : Called(u)' <=> Called(u)
  <2>1. \A l \in Listers : \A u \in rest[l] : tm'[u].next = tm[u].next
    BY <1>3 DEF Inv, TypeOK
  <2>. QED
    BY <2>1, CalledFrame DEF Cancel
<1>5. \A u \in Timers \ {t} : Placed(u)' <=> Placed(u)
  BY <1>1 DEF Cancel, Placed
<1>6. \A u \in Timers \ {t} : Status(u)' = Status(u)
  BY <1>1, <1>3, <1>4, <1>5, StatusFrame DEF Cancel
<1>7. Status(t) \in {"armed", "listed"}
  BY <1>1, StatusRows DEF StatusTable, Inv, Kept
<1>8. Status(t)' = "off"
  <2>1. ~Unused(t)'
    BY <1>1 DEF Unused
  <2>. QED
    BY <1>3, <2>1, StatusRowsNext DEF StatusTable
<1>9. Counted'
  BY <1>1, <1>3, <1>4, CountedFrame DEF Cancel, Inv, TypeOK
<1>. QED
  BY <1>9, <1>3, <1>6, <1>7, <1>8 DEF Cancel, Service!Cancel, Service!Only, Service!Untouched

\* refresh and reset, of a timer with its callback and of one without.
LEMMA Rearms ==
    ASSUME Inv, Inv', Counted, NEW t \in m_timers,
           \A u \in Timers \ {t} : tm'[u] = tm[u],
           tm'[t].cb = tm[t].cb, tm'[t].recurring = tm[t].recurring,
           UNCHANGED <<now, made, m_timers, pc, now_ms, rest, cancelled, listed>>
    PROVE  (Service!Rearm(t) \/ UNCHANGED Service!vars) /\ Counted'
<1>1. t \in Timers /\ Placed(t) /\ \A l \in Listers : t \notin rest[l]
  BY DEF Inv, TypeOK, Apart, Separate, Placed
<1>2. \A u \in Timers : Called(u)' <=> Called(u)
  <2>1. \A l \in Listers : \A u \in rest[l] : tm'[u].next = tm[u].next
    BY <1>1 DEF Inv, TypeOK
  <2>. QED
    BY <2>1, CalledFrame
<1>3. \A u \in Timers : Placed(u)' <=> Placed(u)
  BY DEF Placed
<1>4. \A u \in Timers : Status(u)' = Status(u)
  BY <1>1, <1>2, <1>3, StatusFrame
<1>4a. Counted'
  BY <1>2, CountedFrame DEF Inv, TypeOK
<1>5. CASE tm[t].cb
  <2>1. Status(t) = "armed"
    <3>1. ~Called(t)
      BY <1>1 DEF Called, IsFirst
    <3>. QED
      BY <1>1, <1>5, <3>1, StatusRows DEF StatusTable
  <2>. QED
    BY <1>1, <1>4, <1>4a, <2>1 DEF Service!Rearm, Service!Only, Service!Untouched
<1>6. CASE ~tm[t].cb
  BY <1>1, <1>4, <1>4a, <1>6, Stutters
<1>. QED
  BY <1>5, <1>6

LEMMA CheckEmptyStutters ==
    ASSUME Inv, Inv', Counted, NEW l \in Listers, CheckEmpty(l)
    PROVE  UNCHANGED Service!vars /\ Counted'
<1>1. \A u \in Timers : Called(u)' <=> Called(u)
  <2>1. /\ \A k \in Listers \ {l} : pc'[k] = pc[k]
        /\ pc[l] = "out" /\ pc'[l] = "checked"
    BY DEF CheckEmpty, Inv, TypeOK
  <2>. QED
    BY <2>1, CalledFrame DEF CheckEmpty
<1>2. \A u \in Timers : Placed(u)' <=> Placed(u)
  BY DEF CheckEmpty, Placed
<1>3. \A u \in Timers : Status(u)' = Status(u)
  BY <1>1, <1>2, StatusFrame DEF CheckEmpty
<1>4. Counted'
  BY <1>1, CountedFrame DEF CheckEmpty, Inv, TypeOK
<1>. QED
  BY <1>4, <1>3, Stutters DEF CheckEmpty

\* The section under the lock lists the timers of the locked part that have
\* their callback; the tail of the range stays armed.
LEMMA ExtractLists ==
    ASSUME Inv, Inv', Counted, NEW l \in Listers, pc[l] = "checked",
           NEW E \in SUBSET m_timers, ExpiredRange(E, now_ms[l]),
           NEW P, P = LockedPart(E),
           tm' = [t \in Timers |-> IF t \in P THEN Visited(t, now_ms[l]) ELSE tm[t]],
           listed' = [t \in Timers |-> IF t \in P /\ tm[t].cb
                                      THEN listed[t] + 1 ELSE listed[t]],
           m_timers' = EraseRange(E) \cup PutsBack(P),
           rest' = [rest EXCEPT ![l] = E \ P],
           pc' = [pc EXCEPT ![l] = IF E = P THEN "out" ELSE "loop"],
           UNCHANGED <<now, made, now_ms, cancelled, rearms, crash, raced>>
    PROVE  (\E S \in SUBSET Timers : Service!HandOut(S)) /\ Counted'
<1>0. /\ E \subseteq m_timers /\ P \subseteq E /\ E \subseteq Timers
      /\ rest[l] = {}
      /\ \A t \in E : tm[t].next <= now_ms[l]
  BY DEF ExpiredRange, LockedPart, Inv, TypeOK, Loops
<1>1. \A t \in P : /\ tm'[t].recurring = tm[t].recurring
                   /\ tm[t].recurring => /\ tm'[t].cb = tm[t].cb
                                         /\ tm'[t].next = now_ms[l] + tm[t].ms
                   /\ ~tm[t].recurring => tm'[t].cb = FALSE
  BY <1>0, VisitedFacts
<1>2. \A t \in Timers \ P : tm'[t] = tm[t] /\ listed'[t] = listed[t]
  OBVIOUS
<1>3. /\ rest'[l] = E \ P
      /\ \A k \in Listers \ {l} : rest'[k] = rest[k] /\ pc'[k] = pc[k]
      /\ pc'[l] \in {"out", "loop"}
  BY DEF Inv, TypeOK
<1>4. \A u \in Timers : Called(u)' <=> Called(u)
  <2>1. \A k \in Listers : \A u \in rest[k] : u \in Timers /\ u \notin P
    BY <1>0 DEF Inv, TypeOK, Apart, Separate
  <2>2. \A k \in Listers : \A u \in rest[k] : tm'[u].next = tm[u].next
    BY <1>2, <2>1
  <2>. QED
    BY <1>3, <2>2, CalledFrame
<1>5. \A u \in Timers \ P : Placed(u)' <=> Placed(u)
  BY <1>0, <1>3 DEF Placed, EraseRange, PutsBack
<1>6. \A u \in P : Placed(u) /\ ~Called(u)
  BY <1>0 DEF Placed, Called, IsFirst, Inv, Apart, Separate
<1>7. \A u \in P : tm[u].recurring => Placed(u)'
  BY DEF Placed, PutsBack
<1>8. \A u \in Timers \ P : Status(u)' = Status(u)
  BY <1>2, <1>4, <1>5, StatusFrame
<1>9. ASSUME NEW u \in P, ~tm[u].cb
      PROVE  /\ Status(u)' = Status(u) /\ listed'[u] = listed[u]
             /\ tm'[u].cb = tm[u].cb /\ tm'[u].recurring = tm[u].recurring
  <2>1. u \in Timers /\ tm[u].recurring
    BY <1>0, <1>9 DEF Inv, Kept
  <2>2. tm'[u].cb = tm[u].cb /\ tm'[u].recurring = tm[u].recurring
    BY <1>1, <2>1
  <2>3. Placed(u) /\ Placed(u)'
    BY <1>6, <1>7, <2>1
  <2>4. listed'[u] = listed[u]
    BY <1>9, <2>1
  <2>. QED
    BY <1>4, <2>1, <2>2, <2>3, <2>4, StatusFrame
<1>10. ASSUME NEW u \in P, tm[u].cb
       PROVE  /\ Status(u) = "armed" /\ tm[u].next <= now
              /\ listed'[u] = listed[u] + 1
              /\ \/ /\ tm[u].recurring /\ tm'[u].recurring /\ tm'[u].cb
                    /\ Status(u)' = "armed" /\ tm'[u].next >= tm[u].next
                 \/ /\ ~tm[u].recurring /\ ~tm'[u].recurring
                    /\ Status(u)' = "off"
  <2>1. u \in Timers /\ tm[u].next <= now_ms[l] /\ now_ms[l] <= now
    BY <1>0 DEF Inv, Loops
  <2>2. tm[u].next \in Nat /\ now_ms[l] \in Nat /\ now \in Nat /\ tm[u].ms \in Nat
    BY <2>1, TimerAssumption DEF Inv, TypeOK, Timer
  <2>3. Status(u) = "armed"
    BY <1>6, <1>10, <2>1, StatusRows DEF StatusTable
  <2>4. listed'[u] = listed[u] + 1
    BY <1>10, <2>1
  <2>5. CASE tm[u].recurring
    <3>1. tm'[u].recurring /\ tm'[u].cb /\ tm'[u].next = now_ms[l] + tm[u].ms
      BY <1>1, <1>10, <2>5
    <3>2. Status(u)' = "armed"
      BY <1>4, <1>6, <1>7, <2>1, <2>5, <3>1, StatusRowsNext DEF StatusTable
    <3>. QED
      BY <2>1, <2>2, <2>3, <2>4, <2>5, <3>1, <3>2
  <2>6. CASE ~tm[u].recurring
    <3>1. ~tm'[u].recurring /\ ~tm'[u].cb
      BY <1>1, <2>6
    <3>2. listed'[u] # 0
      BY <2>1, <2>4 DEF Inv, TypeOK
    <3>3. Status(u)' = "off"
      BY <2>1, <3>1, <3>2, StatusRowsNext DEF StatusTable, Unused
    <3>. QED
      BY <2>1, <2>2, <2>3, <2>4, <2>6, <3>1, <3>3
  <2>. QED
    BY <2>5, <2>6
<1>11. ASSUME NEW u \in Timers, u \notin P \/ ~tm[u].cb
       PROVE  /\ Status(u)' = Status(u) /\ listed'[u] = listed[u]
              /\ tm'[u].cb = tm[u].cb /\ tm'[u].recurring = tm[u].recurring
              /\ tm'[u].next = tm[u].next \/ ~tm[u].cb
  BY <1>0, <1>2, <1>8, <1>9, <1>11
<1>12. ASSUME NEW t \in {u \in P : tm[u].cb}
       PROVE  /\ Status(t) = "armed"
              /\ [u \in Timers |-> IF tm[u].cb THEN tm[u].next ELSE 0][t] <= now
              /\ listed'[t] = listed[t] + 1
              /\ (tm'[t].recurring <=> tm[t].recurring)
              /\ Service!Settled(t)
  BY <1>0, <1>10, <1>12 DEF Service!Settled
<1>13. Counted'
  <2>1. \A t \in Timers : tm'[t].cb => tm[t].cb
    BY <1>0, <1>1, <1>2
  <2>2. \A t \in Timers : listed'[t] >= listed[t] /\ listed'[t] \in Nat
    BY DEF Inv, TypeOK
  <2>. QED
    BY <1>4, <2>1, <2>2, CountedFrame
<1>14. PICK S \in SUBSET Timers : S = {t \in P : tm[t].cb}
  BY <1>0
<1>15. Service!HandOut(S)
  BY <1>0, <1>11, <1>12, <1>14 DEF Service!HandOut, Service!Untouched
<1>. QED
  BY <1>13, <1>14, <1>15

\* The first timer of a loop is one.
LEMMA FirstUnique ==
    ASSUME Inv, NEW l \in Listers, NEW t, NEW u,
           IsFirst(t, rest[l]), IsFirst(u, rest[l])
    PROVE  t = u
<1>1. /\ t \in Timers /\ u \in Timers /\ t \in Int /\ u \in Int
      /\ tm[t].next \in Nat /\ tm[u].next \in Nat
  BY TimerAssumption DEF IsFirst, Inv, TypeOK, Timer
<1>. QED
  BY <1>1 DEF IsFirst, Before

\* The unlocked loop hands out the callback of its first timer, unless cancel()
\* has taken the callback away.
LEMMA PushLists ==
    ASSUME Inv, Inv', Counted, NEW l \in Listers, Push(l)
    PROVE  (\E S \in SUBSET Timers : Service!HandOut(S)) /\ Counted'
<1>1. PICK t \in rest[l] :
          /\ IsFirst(t, rest[l])
          /\ listed' = [listed EXCEPT ![t] = IF tm[t].cb THEN @ + 1 ELSE @]
  BY DEF Push
<1>2. /\ t \in Timers /\ Placed(t) /\ pc[l] = "copying" /\ pc'[l] = "pushed"
      /\ \A k \in Listers \ {l} : pc'[k] = pc[k]
      /\ UNCHANGED <<now, tm, made, m_timers, rest, cancelled>>
  BY DEF Push, Proceed, Placed, Inv, TypeOK
<1>3. ~Called(t)
  <2>. SUFFICES ASSUME NEW k \in Listers, pc[k] \in {"pushed", "settling"},
                       IsFirst(t, rest[k])
                PROVE  FALSE
    BY DEF Called
  <2>. QED
    BY <1>2 DEF IsFirst, Inv, Apart, Separate
<1>4. \A k \in Listers, u \in Timers : IsFirst(u, rest[k])' <=> IsFirst(u, rest[k])
  BY <1>2 DEF IsFirst, Before
<1>5. Called(t)'
  BY <1>1, <1>2, <1>4 DEF Called
<1>6. \A u \in Timers \ {t} : Called(u)' <=> Called(u)
  BY <1>1, <1>2, <1>4, FirstUnique DEF Called
<1>7. \A u \in Timers : Placed(u)' <=> Placed(u)
  BY <1>2 DEF Placed
<1>8. \A u \in Timers \ {t} : Status(u)' = Status(u) /\ listed'[u] = listed[u]
  BY <1>1, <1>2, <1>6, <1>7, StatusFrame DEF Inv, TypeOK
<1>8a. Counted'
  <2>1. \A u \in Timers \ {t} : Called(u)' /\ tm'[u].cb => listed'[u] > 0
    BY <1>2, <1>6, <1>8 DEF Counted
  <2>2. tm'[t].cb => listed'[t] > 0
    BY <1>1, <1>2 DEF Inv, TypeOK
  <2>. QED
    BY <2>1, <2>2 DEF Counted
<1>9. CASE tm[t].cb
  <2>1. Status(t) = "armed" /\ Status(t)' = "listed"
    BY <1>2, <1>3, <1>5, <1>9, StatusRows, StatusRowsNext DEF StatusTable
  <2>2. listed'[t] = listed[t] + 1
    BY <1>1, <1>2, <1>9 DEF Inv, TypeOK
  <2>3. tm[t].next <= now
    BY <1>2, TimerAssumption DEF Inv, TypeOK, Timer, Loops
  <2>4. Service!HandOut({t})
    BY <1>2, <1>8, <1>9, <2>1, <2>2, <2>3 DEF Service!HandOut, Service!Untouched
  <2>. QED
    BY <1>2, <1>8a, <2>4
<1>10. CASE ~tm[t].cb
  <2>1. listed'[t] = listed[t]
    BY <1>1, <1>2, <1>10 DEF Inv, TypeOK
  <2>2. Status(t)' = Status(t)
    <3>1. ~Unused(t) /\ ~Unused(t)'
      BY <1>2, <1>7, PlacedIsUsed DEF Inv, Live, Unused
    <3>. QED
      BY <1>2, <1>10, <3>1, StatusRows, StatusRowsNext DEF StatusTable
  <2>3. Service!HandOut({})
    BY <1>2, <1>8, <2>1, <2>2 DEF Service!HandOut, Service!Untouched
  <2>. QED
    BY <1>8a, <2>3
<1>. QED
  BY <1>9, <1>10

\* ... and settles it: armed for the next period, or done.
LEMMA PutBackSettles ==
    ASSUME Inv, Inv', Counted, NEW l \in Listers, PutBack(l)
    PROVE  /\ (\E t \in Timers : Service!Settle(t)) \/ UNCHANGED Service!vars
           /\ Counted'
<1>1. PICK t \in rest[l] :
          /\ IsFirst(t, rest[l])
          /\ tm' = [tm EXCEPT ![t] = Visited(t, now_ms[l])]
          /\ m_timers' = m_timers \cup PutsBack({t})
          /\ rest' = [rest EXCEPT ![l] = @ \ {t}]
          /\ pc' = [pc EXCEPT ![l] = IF rest[l] = {t} THEN "out" ELSE "loop"]
  BY DEF PutBack
<1>2. /\ t \in Timers /\ Placed(t) /\ pc[l] = "settling" /\ Called(t)
      /\ pc'[l] \in {"out", "loop"} /\ rest'[l] = rest[l] \ {t}
      /\ \A k \in Listers \ {l} : pc'[k] = pc[k] /\ rest'[k] = rest[k] /\ t \notin rest[k]
      /\ UNCHANGED <<now, made, cancelled, listed>>
  BY <1>1 DEF PutBack, Placed, Called, Inv, TypeOK, Apart, Separate
<1>3. /\ tm'[t].recurring = tm[t].recurring
      /\ tm[t].recurring => /\ tm'[t].cb = tm[t].cb
                            /\ tm'[t].next = now_ms[l] + tm[t].ms
      /\ ~tm[t].recurring => tm'[t].cb = FALSE
      /\ \A u \in Timers \ {t} : tm'[u] = tm[u]
  <2>1. PICK v : v = Visited(t, now_ms[l])
    OBVIOUS
  <2>2. /\ v.recurring = tm[t].recurring
        /\ tm[t].recurring => v.cb = tm[t].cb /\ v.next = now_ms[l] + tm[t].ms
        /\ ~tm[t].recurring => v.cb = FALSE
    BY <1>2, <2>1, VisitedFacts
  <2>3. tm \in [Timers -> Timer] /\ tm' = [tm EXCEPT ![t] = v]
    BY <1>1, <2>1 DEF Inv, TypeOK
  <2>4. tm'[t] = v /\ \A u \in Timers \ {t} : tm'[u] = tm[u]
    BY <1>2, <2>3
  <2>. QED
    BY <2>2, <2>4
<1>4. \A k \in Listers \ {l}, u \in Timers : IsFirst(u, rest[k])' <=> IsFirst(u, rest[k])
  BY <1>2, <1>3 DEF IsFirst, Before, Inv, TypeOK
<1>5. ~Called(t)'
  BY <1>2 DEF Called, IsFirst
<1>6. \A u \in Timers \ {t} : Called(u)' <=> Called(u)
  BY <1>1, <1>2, <1>4, FirstUnique DEF Called
<1>7. \A u \in Timers \ {t} : Placed(u)' <=> Placed(u)
  BY <1>1, <1>2 DEF Placed, PutsBack
<1>8. Placed(t)' <=> tm[t].recurring
  <2>1. t \notin made /\ t \notin m_timers
    BY DEF Inv, Apart, Separate
  <2>. QED
    BY <1>1, <1>2, <2>1 DEF Placed, PutsBack
<1>9. \A u \in Timers \ {t} : Status(u)' = Status(u)
  BY <1>2, <1>3, <1>6, <1>7, StatusFrame
<1>9a. Counted'
  BY <1>2, <1>3, <1>5, <1>6, CountedFrame DEF Inv, TypeOK
<1>10. CASE tm[t].cb
  <2>1. Status(t) = "listed" /\ listed[t] > 0
    BY <1>2, <1>10, StatusRows DEF StatusTable, Counted
  <2>2. CASE tm[t].recurring
    <3>1. Status(t)' = "armed"
      BY <1>2, <1>3, <1>5, <1>8, <1>10, <2>2, StatusRowsNext DEF StatusTable
    <3>2. tm'[t].next >= tm[t].next
      BY <1>2, <1>3, <2>2, TimerAssumption DEF Inv, TypeOK, Timer, Loops
    <3>3. tm'[t].cb /\ tm'[t].recurring
      BY <1>3, <1>10, <2>2
    <3>4. Service!Settle(t)
      BY <1>2, <1>3, <1>9, <1>10, <2>1, <2>2, <3>1, <3>2, <3>3 DEF Service!Settle,
         Service!Settled, Service!Only, Service!Untouched
    <3>. QED
      BY <1>2, <1>9a, <3>4
  <2>3. CASE ~tm[t].recurring
    <3>1. ~Unused(t)'
      BY <1>2, <2>1 DEF Unused, Inv, TypeOK
    <3>2. Status(t)' = "off"
      BY <1>2, <1>3, <2>3, <3>1, StatusRowsNext DEF StatusTable
    <3>3. Service!Settle(t)
      BY <1>2, <1>3, <1>9, <2>1, <2>3, <3>2 DEF Service!Settle, Service!Settled,
         Service!Only, Service!Untouched
    <3>. QED
      BY <1>2, <1>9a, <3>3
  <2>. QED
    BY <2>2, <2>3
<1>11. CASE ~tm[t].cb
  <2>1. tm'[t].cb = FALSE /\ tm[t].cb = FALSE
    BY <1>2, <1>3, <1>11 DEF Inv, TypeOK, Timer
  <2>2. ~Unused(t) /\ ~Unused(t)'
    BY <1>2, <1>11 DEF Inv, Live, Unused
  <2>3. Status(t)' = Status(t)
    BY <1>2, <2>1, <2>2, StatusRows, StatusRowsNext DEF StatusTable
  <2>. QED
    BY <1>2, <1>3, <1>9, <1>9a, <2>1, <2>3, Stutters
<1>. QED
  BY <1>10, <1>11

\* Going on to the next place of the loop is nothing the user sees.
LEMMA ProceedStutters ==
    ASSUME Inv, Inv', Counted, NEW l \in Listers, StartPush(l) \/ StartPutBack(l)
    PROVE  UNCHANGED Service!vars /\ Counted'
<1>1. /\ \A k \in Listers \ {l} : pc'[k] = pc[k]
      /\ pc'[l] \in {"pushed", "settling"} <=> pc[l] \in {"pushed", "settling"}
      /\ UNCHANGED <<now, tm, made, m_timers, rest, cancelled, listed>>
  BY DEF StartPush, StartPutBack, Proceed, Inv, TypeOK
<1>2. \A u \in Timers : Called(u)' <=> Called(u)
  BY <1>1, CalledFrame
<1>3. \A u \in Timers : Placed(u)' <=> Placed(u)
  BY <1>1 DEF Placed
<1>4. \A u \in Timers : Status(u)' = Status(u)
  BY <1>1, <1>2, <1>3, StatusFrame
<1>5. Counted'
  BY <1>1, <1>2, CountedFrame DEF Inv, TypeOK
<1>. QED
  BY <1>1, <1>4, <1>5, Stutters

LEMMA ListStepRefines ==
    ASSUME Inv, Inv', Counted, NEW l \in Listers, ListStep(l)
    PROVE  [Service!Next]_(Service!vars) /\ Counted'
<1>1. CASE Extract(l)
  <2>1. CASE m_timers = {} \/ \A t \in m_timers : tm[t].next > now_ms[l]
    <3>1. /\ UNCHANGED <<now, tm, made, m_timers, rest, cancelled, listed>>
          /\ pc' = pc \/ pc' = [pc EXCEPT ![l] = "out"]
          /\ pc[l] = "checked"
      BY <1>1, <2>1 DEF Extract
    <3>2. \A k \in Listers : pc'[k] \in {"pushed", "settling"}
                                <=> pc[k] \in {"pushed", "settling"}
      BY <3>1 DEF Inv, TypeOK
    <3>3. \A u \in Timers : Called(u)' <=> Called(u)
      BY <3>1, <3>2, CalledFrame
    <3>4. \A u \in Timers : Placed(u)' <=> Placed(u)
      BY <3>1 DEF Placed
    <3>5. \A u \in Timers : Status(u)' = Status(u)
      BY <3>1, <3>3, <3>4, StatusFrame
    <3>6. UNCHANGED Service!vars
      BY <3>1, <3>5, Stutters
    <3>7. Counted'
      BY <3>1, <3>3, CountedFrame DEF Inv, TypeOK
    <3>. QED
      BY <3>6, <3>7
  <2>2. CASE ~(m_timers = {} \/ \A t \in m_timers : tm[t].next > now_ms[l])
    <3>1. PICK E \in SUBSET m_timers :
              LET P == LockedPart(E)
              IN  /\ ExpiredRange(E, now_ms[l])
                  /\ tm' = [t \in Timers |-> IF t \in P
                               THEN Visited(t, now_ms[l]) ELSE tm[t]]
                  /\ listed' = [t \in Timers |-> IF t \in P /\ tm[t].cb
                               THEN listed[t] + 1 ELSE listed[t]]
                  /\ m_timers' = EraseRange(E) \cup PutsBack(P)
                  /\ rest' = [rest EXCEPT ![l] = E \ P]
                  /\ pc' = [pc EXCEPT ![l] = IF E = P THEN "out" ELSE "loop"]
      BY <1>1, <2>2 DEF Extract
    <3>2. pc[l] = "checked" /\ UNCHANGED <<now, made, now_ms, cancelled, rearms, crash, raced>>
      BY <1>1, <2>2 DEF Extract
    <3>3. (\E S \in SUBSET Timers : Service!HandOut(S)) /\ Counted'
      BY <3>1, <3>2, ExtractLists
    <3>. QED
      BY <3>3 DEF Service!Next
  <2>. QED
    BY <2>1, <2>2
<1>2. CASE Push(l)
  BY <1>2, PushLists DEF Service!Next
<1>3. CASE PutBack(l)
  BY <1>3, PutBackSettles DEF Service!Next
<1>4. CASE CheckEmpty(l)
  BY <1>4, CheckEmptyStutters
<1>5. CASE StartPush(l) \/ StartPutBack(l)
  BY <1>5, ProceedStutters
<1>. QED
  BY <1>1, <1>2, <1>3, <1>4, <1>5 DEF ListStep

LEMMA AppStepRefines ==
    ASSUME Inv, Inv', Counted, AppStep
    PROVE  [Service!Next]_(Service!vars) /\ Counted'
<1>1. PICK t \in Timers :
          \/ \E ms \in Periods, recurring \in Kinds : NewTimer(t, ms, recurring)
          \/ InsertTimer(t) \/ Cancel(t) \/ Refresh(t)
          \/ \E ms \in Periods, from_now \in BOOLEAN : ResetTimer(t, ms, from_now)
  BY DEF AppStep
<1>2. CASE \E ms \in Periods, recurring \in Kinds : NewTimer(t, ms, recurring)
  BY <1>2, NewTimerArms DEF Service!Next
<1>3. CASE InsertTimer(t)
  BY <1>3, InsertTimerStutters
<1>4. CASE Cancel(t)
  BY <1>4, CancelCancels DEF Service!Next
<1>5. CASE \/ Refresh(t)
           \/ \E ms \in Periods, from_now \in BOOLEAN : ResetTimer(t, ms, from_now)
  <2>1. /\ t \in m_timers
        /\ \A u \in Timers \ {t} : tm'[u] = tm[u]
        /\ tm'[t].cb = tm[t].cb /\ tm'[t].recurring = tm[t].recurring
        /\ UNCHANGED <<now, made, m_timers, pc, now_ms, rest, cancelled, listed>>
    <3>1. CASE Refresh(t)
      BY <3>1 DEF Refresh, Inv, TypeOK, Timer
    <3>2. ASSUME NEW ms \in Periods, NEW from_now \in BOOLEAN, ResetTimer(t, ms, from_now)
          PROVE  <2>1
      BY <3>2 DEF ResetTimer, Inv, TypeOK, Timer
    <3>. QED
      BY <1>5, <3>1, <3>2
  <2>. QED
    BY <2>1, Rearms DEF Service!Next
<1>. QED
  BY <1>1, <1>2, <1>3, <1>4, <1>5

LEMMA TickRefines ==
    ASSUME Inv, Inv', Counted, Tick PROVE Service!Tick /\ Counted'
<1>1. \A u \in Timers : Called(u)' <=> Called(u)
  BY CalledFrame DEF Tick
<1>2. \A u \in Timers : Placed(u)' <=> Placed(u)
  BY DEF Tick, Placed
<1>3. \A u \in Timers : Status(u)' = Status(u)
  BY <1>1, <1>2, StatusFrame DEF Tick
<1>4. [u \in Timers |-> Status(u)]' = [u \in Timers |-> Status(u)]
  BY <1>3
<1>5. Counted'
  BY <1>1, CountedFrame DEF Tick, Inv, TypeOK
<1>. QED
  BY <1>4, <1>5 DEF Tick, Service!Tick, Inv, TypeOK

LEMMA NextRefines ==
    ASSUME Inv, Inv', Counted, [Next]_vars, ~raced'
    PROVE  [Service!Next]_(Service!vars) /\ Counted'
<1>1. CASE UNCHANGED vars
  <2>1. \A u \in Timers : Called(u)' <=> Called(u)
    BY <1>1, CalledFrame DEF vars
  <2>2. \A u \in Timers : Placed(u)' <=> Placed(u)
    BY <1>1 DEF vars, Placed
  <2>3. \A u \in Timers : Status(u)' = Status(u)
    BY <1>1, <2>1, <2>2, StatusFrame DEF vars
  <2>4. UNCHANGED Service!vars
    BY <1>1, <2>3, Stutters DEF vars
  <2>. QED
    BY <1>1, <2>1, <2>4, CountedFrame DEF vars, Inv, TypeOK
<1>2. CASE Tick
  BY <1>2, TickRefines DEF Service!Next
<1>3. CASE AppStep
  BY <1>3, AppStepRefines
<1>4. CASE \E l \in Listers : ListStep(l)
  BY <1>4, ListStepRefines
<1>5. ~Clash
  BY DEF Clash
<1>. QED
  BY <1>1, <1>2, <1>3, <1>4, <1>5 DEF Next, Step, Over

\* Until a race, TimerManager implements TimerService: whatever the threads that
\* poll, the clock and the application's calls do in between, a callback is put
\* into cbs only when the deadline the timer has at that moment has passed,
\* never after cancel() returned true (what is in cbs by then is still run),
\* once for a one-shot timer, and a recurring timer is armed again for a later
\* deadline.
THEOREM ServiceImplemented == Spec => ImplementsService
<1>. DEFINE C == ~raced => Counted
<1>1. Init => Service!Init
  <2>. SUFFICES ASSUME Init PROVE Service!Init
    OBVIOUS
  <2>1. \A t \in Timers : Unused(t) /\ ~tm[t].cb /\ ~tm[t].recurring
    BY DEF Init, Unused
  <2>2. \A t \in Timers : Status(t) = "new"
    BY <2>1, StatusRows DEF StatusTable
  <2>. QED
    BY <2>1, <2>2 DEF Init, Service!Init
<1>2. Init => C
  BY DEF Init, Counted, Called
<1>3. UpToRace /\ UpToRace' /\ C /\ [Next]_vars
         => [raced' \/ Service!Next]_(Service!vars) /\ C'
  <2>. SUFFICES ASSUME UpToRace, UpToRace', C, [Next]_vars
                PROVE  [raced' \/ Service!Next]_(Service!vars) /\ C'
    OBVIOUS
  <2>1. CASE raced'
    BY <2>1
  <2>2. CASE ~raced'
    <3>1. ~raced
      BY <2>2, RaceIsFinal DEF UpToRace
    <3>2. Inv /\ Inv' /\ Counted
      BY <2>2, <3>1 DEF UpToRace
    <3>. QED
      BY <2>2, <3>2, NextRefines
  <2>. QED
    BY <2>1, <2>2
<1>. HIDE DEF C
<1>. QED
  BY <1>1, <1>2, <1>3, InvInductive, PTL DEF Spec, ImplementsService
=============================================================================
