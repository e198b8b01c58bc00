---------------------------- MODULE TimerService ----------------------------
(***************************************************************************)
(* What TimerManager promises its users, without the set, the lock and the *)
(* polling threads: a timer is armed with a deadline; when it has passed   *)
(* its callback is handed out to be run, of a one-shot timer at most once, *)
(* of a recurring one again and again, of a cancelled one no more (what    *)
(* was handed out before it was cancelled is still run).                   *)
(***************************************************************************)
EXTENDS Naturals

CONSTANT Timers

VARIABLES
    now,      \* the clock
    st,       \* "new", "armed", "listed" (handed out, not yet settled), "off"
    kind,     \* "once" or "recurring", chosen when the timer is armed first
    due,      \* the deadline of an armed or listed timer
    listed    \* how often the callback was handed out

vars == <<now, st, kind, due, listed>>

Init ==
    /\ now = 0
    /\ st = [t \in Timers |-> "new"]
    /\ kind = [t \in Timers |-> "once"]
    /\ due = [t \in Timers |-> 0]
    /\ listed = [t \in Timers |-> 0]

-----------------------------------------------------------------------------
\* Timers outside S are as they were.
Untouched(S) ==
    \A u \in Timers \ S : /\ st'[u] = st[u] /\ due'[u] = due[u]
                          /\ kind'[u] = kind[u] /\ listed'[u] = listed[u]

\* Only t's state and deadline change.
Only(t) == Untouched({t}) /\ listed'[t] = listed[t] /\ now' = now

Arm(t) ==
    /\ st[t] = "new" /\ st'[t] = "armed"
    /\ kind'[t] \in {"once", "recurring"}
    /\ due'[t] >= now
    /\ Only(t)

\* refresh and reset move the deadline of an armed timer.
Rearm(t) ==
    /\ st[t] = "armed" /\ st'[t] = "armed"
    /\ kind'[t] = kind[t]
    /\ Only(t)

Cancel(t) ==
    /\ st[t] \in {"armed", "listed"} /\ st'[t] = "off"
    /\ kind'[t] = kind[t]
    /\ Only(t)

\* What becomes of a timer whose callback was handed out: it is armed for a later deadline
\* or, when it is not recurring, done.
Settled(t) ==
    \/ kind[t] = "recurring" /\ st'[t] = "armed" /\ due'[t] >= due[t]
    \/ kind[t] = "once" /\ st'[t] = "off"

\* Callbacks are handed out, each of an armed timer whose deadline has passed.
HandOut(S) ==
    /\ \A t \in S : /\ st[t] = "armed" /\ due[t] <= now
                    /\ listed'[t] = listed[t] + 1
                    /\ kind'[t] = kind[t]
                    /\ Settled(t) \/ (st'[t] = "listed" /\ due'[t] = due[t])
    /\ Untouched(S) /\ now' = now

Settle(t) ==
    /\ st[t] = "listed"
    /\ Settled(t)
    /\ kind'[t] = kind[t]
    /\ Only(t)

Tick == now' > now /\ UNCHANGED <<st, kind, due, listed>>

Next ==
    \/ Tick
    \/ \E S \in SUBSET Timers : HandOut(S)
    \/ \E t \in Timers : Arm(t) \/ Rearm(t) \/ Cancel(t) \/ Settle(t)

Spec == Init /\ [][Next]_vars
=============================================================================
