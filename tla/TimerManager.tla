--------------------------- MODULE TimerManager ----------------------------
(***************************************************************************)
(* sylar::Timer and sylar::TimerManager (src/sylar/timer.h, timer.cc): a   *)
(* set of timers ordered by deadline under a reader-writer lock.  Any      *)
(* thread adds, cancels, refreshes and resets timers; the threads that     *)
(* poll (IOManager::idle) call list_expired_cbs.                           *)
(*                                                                         *)
(* A section under m_mutex is one action.  list_expired_cbs passes its own *)
(* lock to add_timer, which releases it, so everything behind the first    *)
(* recurring timer of a pass runs without the lock: there each access to a *)
(* callback or to the set has a beginning and an end.  A thread that comes *)
(* in between makes a data race (Clash).  What the program does after one  *)
(* is undefined, and nothing is said about it.                             *)
(***************************************************************************)
EXTENDS Integers, FiniteSets

CONSTANTS
    Timers,      \* addresses of Timer objects: integers, the tie-break
    Listers,     \* threads that call list_expired_cbs
    Periods,     \* values of ms
    Kinds,       \* values of `recurring` passed to add_timer
    AppOps,      \* which of "cancel", "refresh", "reset" are called
    MaxTime,     \* bound on the clock
    MaxRearms    \* bound on the calls of refresh and reset

ASSUME TimerAssumption ==
    /\ Timers \subseteq Int
    /\ Periods \subseteq Nat
    /\ Kinds \subseteq BOOLEAN
    /\ AppOps \subseteq {"cancel", "refresh", "reset"}
    /\ MaxTime \in Nat /\ MaxRearms \in Nat

VARIABLES
    now,         \* Get_current_ms()
    tm,          \* the Timer objects
    made,        \* timers constructed by add_timer and not yet inserted
    m_timers,    \* the set
    pc, now_ms,  \* a lister's place in list_expired_cbs and its local now_ms
    rest,        \* expired_timers the unlocked loop has still to visit
    cancelled,   \* history: cancel() returned true
    listed,      \* history: how often the callback was pushed into cbs
    rearms,
    crash,
    raced        \* two threads have been in the set or in a callback at once

vars == <<now, tm, made, m_timers, pc, now_ms, rest, cancelled, listed, rearms,
          crash, raced>>

-----------------------------------------------------------------------------
Timer == [next : Nat, ms : Nat, cb : BOOLEAN, recurring : BOOLEAN]

\* The type invariant.
TypeOK ==
    /\ now \in 0..MaxTime
    /\ tm \in [Timers -> Timer]
    /\ made \subseteq Timers
    /\ m_timers \subseteq Timers
    /\ pc \in [Listers -> {"out", "checked", "loop", "copying", "pushed",
                         "settling"}]
    /\ now_ms \in [Listers -> 0..MaxTime]
    /\ rest \in [Listers -> SUBSET Timers]
    /\ cancelled \subseteq Timers
    /\ listed \in [Timers -> Nat]
    /\ rearms \in 0..MaxRearms
    /\ crash \in BOOLEAN /\ raced \in BOOLEAN

\* A timer that add_timer has not created yet has no callback.
Init ==
    /\ now = 0
    /\ tm = [t \in Timers |-> [next |-> 0, ms |-> 0, cb |-> FALSE,
                               recurring |-> FALSE]]
    /\ made = {}
    /\ m_timers = {}
    /\ pc = [l \in Listers |-> "out"]
    /\ now_ms = [l \in Listers |-> 0]
    /\ rest = [l \in Listers |-> {}]
    /\ cancelled = {}
    /\ listed = [t \in Timers |-> 0]
    /\ rearms = 0
    /\ crash = FALSE /\ raced = FALSE

-----------------------------------------------------------------------------
\* Timer::Comparator.
Before(a, b) ==
    \/ tm[a].next < tm[b].next
    \/ tm[a].next = tm[b].next /\ a < b

\* a is the first element of S, what *begin() is.
IsFirst(a, S) == a \in S /\ \A b \in S \ {a} : Before(a, b)

-----------------------------------------------------------------------------
(* Accesses without the lock *)

\* Lister l is inside m_timers.insert, for a recurring timer.
Inserting(l) ==
    pc[l] = "settling" /\ \E t \in rest[l] : IsFirst(t, rest[l]) /\ tm[t].recurring

\* Nobody is: a thread that has the lock works on the set alone.
SetIsFree == \A l \in Listers : ~Inserting(l)

\* A lister copies the callback of t, or clears it.
CbInUse(t) ==
    \E l \in Listers :
        /\ IsFirst(t, rest[l])
        /\ pc[l] = "copying" \/ (pc[l] = "settling" /\ ~tm[t].recurring)

-----------------------------------------------------------------------------
(* The application's calls *)

\* A timer no add_timer has created.
Unused(t) == t \notin made \cup m_timers /\ tm[t].ms = 0 /\ listed[t] = 0
             /\ ~tm[t].cb /\ t \notin cancelled

\* add_timer(ms, cb, recurring): the constructor reads the clock ...
NewTimer(t, ms, recurring) ==
    /\ Unused(t)
    /\ tm' = [tm EXCEPT ![t] = [next |-> now + ms, ms |-> ms, cb |-> TRUE,
                                recurring |-> recurring]]
    /\ made' = made \cup {t}
    /\ UNCHANGED <<now, m_timers, pc, now_ms, rest, cancelled, listed, rearms,
                   crash, raced>>

\* ... and the timer is inserted under the lock taken afterwards.
InsertTimer(t) ==
    /\ t \in made /\ SetIsFree
    /\ made' = made \ {t}
    /\ m_timers' = m_timers \cup {t}
    /\ UNCHANGED <<now, tm, pc, now_ms, rest, cancelled, listed, rearms, crash, raced>>

\* The application has the timer's pointer once add_timer has returned.
Known(t) == ~Unused(t) /\ t \notin made

\* Mutant: the timer is not found in the set.
EraseNothing(t) == m_timers

\* The set after find and erase of one timer.
EraseTimer(t) == m_timers \ {t}

\* Mutant: the callback is not cleared.
CancelledKeepsCb(t) == tm[t]

\* The cancelled timer has no callback.
Cancelled(t) == [tm[t] EXCEPT !.cb = FALSE]

\* Timer::cancel finds the callback: it returns true, otherwise nothing changes.
Cancels(t) == "cancel" \in AppOps /\ Known(t) /\ tm[t].cb

Cancel(t) ==
    /\ Cancels(t) /\ SetIsFree /\ ~CbInUse(t)
    /\ tm' = [tm EXCEPT ![t] = Cancelled(t)]
    /\ m_timers' = EraseTimer(t)
    /\ cancelled' = cancelled \cup {t}
    /\ UNCHANGED <<now, made, pc, now_ms, rest, listed, rearms, crash, raced>>

\* Timer::refresh: erased, given a new deadline and inserted again.
Refresh(t) ==
    /\ "refresh" \in AppOps /\ Known(t) /\ rearms < MaxRearms
    /\ tm[t].cb /\ t \in m_timers /\ SetIsFree
    /\ tm' = [tm EXCEPT ![t].next = now + tm[t].ms]
    /\ rearms' = rearms + 1
    /\ UNCHANGED <<now, made, m_timers, pc, now_ms, rest, cancelled, listed,
                   crash, raced>>

\* The deadline reset gives: from now, or from when the timer was last armed.
NewDeadline(t, ms, from_now) ==
    IF from_now THEN now + ms ELSE tm[t].next - tm[t].ms + ms

\* Timer::reset(ms, from_now); nothing to do for the same period unless the
\* deadline is to be counted from now.
ResetTimer(t, ms, from_now) ==
    /\ "reset" \in AppOps /\ Known(t) /\ rearms < MaxRearms
    /\ ms # tm[t].ms \/ from_now
    /\ t \in m_timers /\ SetIsFree
    /\ tm' = [tm EXCEPT ![t].next = NewDeadline(t, ms, from_now),
                        ![t].ms = ms]
    /\ rearms' = rearms + 1
    /\ UNCHANGED <<now, made, m_timers, pc, now_ms, rest, cancelled, listed,
                   crash, raced>>

\* A call of the application that walks the set to find t, whatever it finds.
Finds(t) ==
    \/ Cancels(t)
    \/ "refresh" \in AppOps /\ Known(t) /\ tm[t].cb
    \/ "reset" \in AppOps /\ Known(t)

-----------------------------------------------------------------------------
(* list_expired_cbs *)

\* !m_timers.empty().
NotEmpty == m_timers # {}

\* The clock is read, then the set is found non-empty under the read lock.
CheckEmpty(l) ==
    /\ pc[l] = "out"
    /\ NotEmpty
    /\ now_ms' = [now_ms EXCEPT ![l] = now]
    /\ pc' = [pc EXCEPT ![l] = "checked"]
    /\ UNCHANGED <<now, tm, made, m_timers, rest, cancelled, listed, rearms,
                   crash, raced>>

\* Mutant: the range reaches one tick into the future.
RangeTooLong(E, at) ==
    /\ E # {} /\ E \subseteq {t \in m_timers : tm[t].next <= at + 1}
    /\ \A t \in E, u \in m_timers \ E : Before(t, u)

\* Mutant: a timer due exactly now is never in the range.
RangeTooShort(E, at) ==
    /\ E # {} /\ E = {t \in m_timers : tm[t].next < at}

\* What [begin, upper_bound(now_timer)) can be.  A timer due exactly at now_ms
\* belongs to it or not depending on its address and that of now_timer; when
\* the range is empty the first timer is taken.
ExpiredRange(E, at) ==
    /\ E # {} /\ E \subseteq {t \in m_timers : tm[t].next <= at}
    /\ {t \in m_timers : tm[t].next < at} \subseteq E
    /\ \A t \in E, u \in m_timers \ E : Before(t, u)

\* The part of the loop that runs under the lock: up to and including the
\* first recurring timer, whose add_timer releases it.
LockedPart(E) ==
    {t \in E : \A r \in E : tm[r].recurring => t = r \/ Before(t, r)}

\* A timer is visited: its callback is pushed into cbs; a recurring timer gets
\* its next deadline, a one-shot timer loses its callback.
Visited(t, at) == IF tm[t].recurring
                  THEN [tm[t] EXCEPT !.next = at + tm[t].ms]
                  ELSE [tm[t] EXCEPT !.cb = FALSE]

\* Mutant: only the first timer of the range is erased.
EraseFirst(E) == {t \in m_timers : ~IsFirst(t, E)}

\* erase(begin, it).
EraseRange(E) == m_timers \ E

\* Mutant: recurring timers are not put back.
PutsBackNone(S) == {}

\* The timers of S that add_timer inserts again.
PutsBack(S) == {t \in S : tm[t].recurring}

\* The section under the write lock.  The set may have become empty since it
\* was checked: then *begin() is read off an empty set.
Extract(l) ==
    /\ pc[l] = "checked" /\ SetIsFree
    /\ IF m_timers = {}
       THEN crash' = TRUE /\ UNCHANGED <<tm, m_timers, pc, rest, listed>>
       ELSE /\ UNCHANGED crash
            /\ IF \A t \in m_timers : tm[t].next > now_ms[l]
               THEN /\ pc' = [pc EXCEPT ![l] = "out"]
                    /\ UNCHANGED <<tm, m_timers, rest, listed>>
               ELSE \E E \in SUBSET m_timers :
                    /\ ExpiredRange(E, now_ms[l])
                    /\ LET P == LockedPart(E)
                       IN  /\ tm' = [t \in Timers |-> IF t \in P
                                        THEN Visited(t, now_ms[l]) ELSE tm[t]]
                           /\ listed' = [t \in Timers |-> IF t \in P /\ tm[t].cb
                                        THEN listed[t] + 1 ELSE listed[t]]
                           /\ m_timers' = EraseRange(E) \cup PutsBack(P)
                           /\ rest' = [rest EXCEPT ![l] = E \ P]
                           /\ pc' = [pc EXCEPT ![l] = IF E = P THEN "out"
                                                      ELSE "loop"]
    /\ UNCHANGED <<now, made, now_ms, cancelled, rearms, raced>>

\* Lister l goes on to the next place of the loop.
Proceed(l, from, to) ==
    /\ pc[l] = from
    /\ pc' = [pc EXCEPT ![l] = to]
    /\ UNCHANGED <<now, tm, made, m_timers, now_ms, rest, cancelled, rearms, crash, raced>>

\* The loop behind the first recurring timer, without the lock: the callback of
\* the next expired timer is copied ...
StartPush(l) == Proceed(l, "loop", "copying") /\ UNCHANGED listed

Push(l) ==
    /\ Proceed(l, "copying", "pushed")
    /\ \E t \in rest[l] :
        /\ IsFirst(t, rest[l])
        /\ listed' = [listed EXCEPT ![t] = IF tm[t].cb THEN @ + 1 ELSE @]

\* ... and the timer is inserted again or loses its callback.
StartPutBack(l) ==
    /\ \A t \in rest[l] : IsFirst(t, rest[l]) /\ tm[t].recurring => SetIsFree
    /\ Proceed(l, "pushed", "settling") /\ UNCHANGED listed

PutBack(l) ==
    /\ pc[l] = "settling"
    /\ \E t \in rest[l] :
        /\ IsFirst(t, rest[l])
        /\ tm' = [tm EXCEPT ![t] = Visited(t, now_ms[l])]
        /\ m_timers' = m_timers \cup PutsBack({t})
        /\ rest' = [rest EXCEPT ![l] = @ \ {t}]
        /\ pc' = [pc EXCEPT ![l] = IF rest[l] = {t} THEN "out" ELSE "loop"]
    /\ UNCHANGED <<now, made, now_ms, cancelled, listed, rearms, crash, raced>>

\* A data race: a thread comes into the set, with the lock or without it, while
\* l inserts, or cancel() clears a callback that a lister is at.  (empty() and
\* get_next_timer only read, and leave the tree as it is.)  The tree may lead to
\* any of the timers afterwards.
Clash ==
    /\ \/ \E l \in Listers :
            /\ Inserting(l)
            /\ \/ made # {}
               \/ \E t \in Timers : Finds(t)
               \/ \E k \in Listers : pc[k] = "checked"
               \/ \E k \in Listers, t \in Timers :
                    pc[k] = "pushed" /\ IsFirst(t, rest[k]) /\ tm[t].recurring
       \/ \E t \in Timers : CbInUse(t) /\ Cancels(t)
    /\ raced' = TRUE
    /\ m_timers' \in SUBSET Timers
    /\ UNCHANGED <<now, tm, made, pc, now_ms, rest, cancelled, listed, rearms, crash>>

-----------------------------------------------------------------------------
Tick ==
    /\ now < MaxTime
    /\ now' = now + 1
    /\ UNCHANGED <<tm, made, m_timers, pc, now_ms, rest, cancelled, listed,
                   rearms, crash, raced>>

ListStep(l) ==
    \/ CheckEmpty(l) \/ Extract(l)
    \/ StartPush(l) \/ Push(l) \/ StartPutBack(l) \/ PutBack(l)

AppStep ==
    \E t \in Timers :
        \/ \E ms \in Periods, recurring \in Kinds : NewTimer(t, ms, recurring)
        \/ InsertTimer(t) \/ Cancel(t) \/ Refresh(t)
        \/ \E ms \in Periods, from_now \in BOOLEAN : ResetTimer(t, ms, from_now)

Step ==
    /\ ~crash /\ ~raced
    /\ Tick \/ AppStep \/ Clash \/ \E l \in Listers : ListStep(l)

\* The process is over, or the clock has reached its bound.
Over == (crash \/ raced \/ now = MaxTime) /\ UNCHANGED vars

Next == Step \/ Over

Spec == Init /\ [][Next]_vars

\* The clock advances, a thread inside add_timer goes on, and the pollers keep
\* polling: IOManager::idle never sleeps longer than MAX_TIMEOUT.
FairSpec ==
    /\ Spec
    /\ WF_vars(Tick /\ ~crash /\ ~raced)
    /\ \A t \in Timers : WF_vars(InsertTimer(t) /\ ~crash /\ ~raced)
    /\ \A l \in Listers : WF_vars(ListStep(l) /\ ~crash /\ ~raced)

-----------------------------------------------------------------------------
(* Properties *)

\* The timer is in the set, or about to be put (back) into it.
Placed(t) == t \in made \cup m_timers \/ \E l \in Listers : t \in rest[l]

Kept ==
    \A t \in Timers :
        /\ tm[t].cb => Placed(t)
        /\ t \in m_timers => tm[t].cb \/ tm[t].recurring

\* As long as the unlocked loop has not raced with another thread, the set holds
\* what it should.  A timer that was added and is neither cancelled nor done is
\* in it, or about to be put (back) into it: no pass of list_expired_cbs loses
\* it.  And a one-shot timer that was cancelled or has been listed is out of it
\* for good, so that stopping() does not wait for it.
NoTimerLost == ~raced => Kept

Separate ==
    /\ \A t \in m_timers, l \in Listers : t \notin rest[l]
    /\ \A k, l \in Listers : k # l => rest[k] \cap rest[l] = {}

\* Only one place owns a timer, so that the unlocked loop never holds a timer
\* that is also in the set or in another thread's loop (up to a race).
OneOwner == ~raced => Separate

\* Between Push and PutBack: the timer's callback is in cbs.
Called(t) == \E l \in Listers : pc[l] \in {"pushed", "settling"} /\ IsFirst(t, rest[l])

\* What a timer is to its user.  Between Push and PutBack the callback has been
\* handed out and the timer is not settled; a timer with its callback in no
\* place at all is lost, which TimerService does not know.
Status(t) ==
    CASE Unused(t) -> "new"
      [] ~Unused(t) /\ ~tm[t].cb -> "off"
      [] tm[t].cb /\ Called(t) -> "listed"
      [] tm[t].cb /\ ~Called(t) /\ Placed(t) -> "armed"
      [] OTHER -> "lost"

Service == INSTANCE TimerService WITH
    Timers <- Timers,
    now    <- now,
    st     <- [t \in Timers |-> Status(t)],
    kind   <- [t \in Timers |-> IF tm[t].recurring THEN "recurring" ELSE "once"],
    due    <- [t \in Timers |-> IF tm[t].cb THEN tm[t].next ELSE 0],
    listed  <- listed

\* Up to a race, the locked set, the unlocked tail of list_expired_cbs and the
\* calls between its steps implement TimerService: no callback is put into cbs
\* before the deadline the timer has at that moment, none after cancel()
\* returned true (one that is in cbs by then is still run), that of a one-shot
\* timer at most once, and a recurring timer is armed for a later deadline.
ImplementsService == Service!Init /\ [][raced' \/ Service!Next]_(Service!vars)

\* list_expired_cbs never dereferences begin() of an empty set.
NoEmptyDeref == ~crash

\* A timer that is due does not stay in the set unserved (while the process
\* lives, see NoEmptyDeref, and up to a race).
DueIsServed ==
    LET Due(t) == t \in m_timers /\ tm[t].next <= now
    IN  \A t \in Timers : Due(t) ~> (~Due(t) \/ crash \/ raced)
=============================================================================
