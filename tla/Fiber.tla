------------------------------- MODULE Fiber -------------------------------
(***************************************************************************)
(* sylar::Fiber (src/sylar/fiber.h, fiber.cc): a coroutine object.         *)
(*                                                                         *)
(* A fiber is a record:                                                    *)
(*   state  m_state, or "NONE" before the object is constructed            *)
(*   ctx    what m_ctx holds:                                              *)
(*            "fresh"  makecontext'ed, resuming it enters MainFunc         *)
(*            "saved"  written by the swapcontext of swapOut               *)
(*            "live"   a thread runs on it, or is leaving it and has not   *)
(*                     executed the swapcontext yet                        *)
(*            "dead"   saved by the last swapOut of MainFunc: resuming it  *)
(*                     reaches the assertion "Should not reach here"       *)
(*   job    what m_cb runs (a user's function), or NoJob                   *)
(***************************************************************************)

FiberStates == {"NONE", "INIT", "HOLD", "EXEC", "TERM", "READY", "EXCPT"}
Contexts == {"fresh", "saved", "live", "dead"}

FiberType(Job) == [state : FiberStates, ctx : Contexts, job : Job]

\* No object yet.
Unborn(noJob) == [state |-> "NONE", ctx |-> "fresh", job |-> noJob]

\* Fiber::Fiber(cb): a sub fiber bound to MainFunc.
NewFiber(cb) == [state |-> "INIT", ctx |-> "fresh", job |-> cb]

\* The assertion at the head of Fiber::reset.
CanReset(f) == f.state \in {"INIT", "TERM", "EXCPT"}

\* Fiber::reset(cb) once its assertion holds.
Reset(f, cb) == [f EXCEPT !.state = "INIT", !.ctx = "fresh", !.job = cb]

(***************************************************************************)
(* The ways Fiber::swapIn can go wrong: the assertion m_state != EXEC, a   *)
(* context that another thread is still standing on, and a context whose   *)
(* MainFunc has already run to its end.                                    *)
(***************************************************************************)
SwapInFault(f) ==
    IF f.state = "EXEC" THEN "exec"
    ELSE IF f.ctx = "live" THEN "live"
    ELSE IF f.ctx = "dead" THEN "dead"
    ELSE "none"

\* Fiber::swapIn without a fault: the thread continues on the fiber's stack.
SwapIn(f) == [f EXCEPT !.state = "EXEC", !.ctx = "live"]

\* Fiber::setState, also the assignments to m_state in Yield_to_Ready and
\* Yield_to_Hold.
SetState(f, s) == [f EXCEPT !.state = s]

\* MainFunc behind its try block: the function returned (m_cb is dropped and
\* the state is TERM) or threw (EXCPT).
MainFuncEnds(f, throws, noJob) ==
    [f EXCEPT !.state = IF throws THEN "EXCPT" ELSE "TERM",
              !.job = IF throws THEN f.job ELSE noJob]

\* The swapcontext of Fiber::swapOut: the context is saved, for good when
\* MainFunc has left its try block (m_state is TERM or EXCPT).
SwapOut(f, ended) == [f EXCEPT !.ctx = IF ended THEN "dead" ELSE "saved"]
=============================================================================
