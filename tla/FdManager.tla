----------------------------- MODULE FdManager -----------------------------
(***************************************************************************)
(* sylar::FdCtx and sylar::FdManger (src/sylar/fd_manager.h and .cc): what *)
(* the hooks know about a descriptor.                                      *)
(*                                                                         *)
(* A context is a record of FdCtx's members; a timeout is only set or not  *)
(* (its default, -1).  m_isClosed is left out: nothing ever sets it, since *)
(* FdCtx::close is empty.  `gen` is not in the code: it says which of the  *)
(* descriptors that had this number the context was created for.           *)
(***************************************************************************)
LOCAL INSTANCE Naturals

FdCtx == [m_isInit : BOOLEAN, m_isSocket : BOOLEAN, m_sys_nonblock : BOOLEAN,
          m_user_nonblock : BOOLEAN, timeouts : SUBSET {"RCV", "SND"}, gen : Nat]

NoCtx == [m_isInit |-> FALSE, m_isSocket |-> FALSE, m_sys_nonblock |-> FALSE,
          m_user_nonblock |-> FALSE, timeouts |-> {}, gen |-> 0]

\* FdCtx::FdCtx.
NewFdCtx(g) == [NoCtx EXCEPT !.gen = g]

\* A null pointer in m_datas (or beyond its end) stands as NoCtx.
Exists(ctx) == ctx.gen # 0

\* FdCtx::init of an open socket.
InitFdCtx(ctx) ==
    IF ctx.m_isInit THEN ctx
    ELSE [m_isInit |-> TRUE, m_isSocket |-> TRUE, m_sys_nonblock |-> TRUE,
          m_user_nonblock |-> FALSE, timeouts |-> {}, gen |-> ctx.gen]

\* FdCtx::set_timeout and get_timeout.
SetTimeout(ctx, type) == [ctx EXCEPT !.timeouts = @ \cup {type}]
HasTimeout(ctx, type) == type \in ctx.timeouts

\* FdCtx::set_user_nonblock.
SetUserNonblock(ctx, f) == [ctx EXCEPT !.m_user_nonblock = f]
=============================================================================
