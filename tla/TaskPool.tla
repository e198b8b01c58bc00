----------------------------- MODULE TaskPool ------------------------------
(***************************************************************************)
(* What a user of Scheduler relies on: a function handed to schedule is    *)
(* begun once and run to its end, and stop() returns only when nothing     *)
(* that was handed over is left.  It says nothing of threads, fibers,      *)
(* the task list or the active count; Scheduler implements it.             *)
(***************************************************************************)
EXTENDS Naturals

CONSTANT Jobs

VARIABLES status, rounds
vars == <<status, rounds>>

Init == status = [j \in Jobs |-> "fresh"] /\ rounds = 0

Submit(S) ==
    /\ \A j \in S : status[j] = "fresh"
    /\ status' = [j \in Jobs |-> IF j \in S THEN "submitted" ELSE status[j]]
    /\ UNCHANGED rounds

Begin(j) ==
    /\ status[j] = "submitted"
    /\ status' = [status EXCEPT ![j] = "begun"]
    /\ UNCHANGED rounds

Complete(j) ==
    /\ status[j] = "begun"
    /\ status' = [status EXCEPT ![j] = "finished"]
    /\ UNCHANGED rounds

StopReturn ==
    /\ \A j \in Jobs : status[j] \in {"fresh", "finished"}
    /\ rounds' = rounds + 1
    /\ UNCHANGED status

Next ==
    \/ \E S \in SUBSET Jobs : Submit(S)
    \/ \E j \in Jobs : Begin(j) \/ Complete(j)
    \/ StopReturn

Spec == Init /\ [][Next]_vars
=============================================================================
