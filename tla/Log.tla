-------------------------------- MODULE Log ---------------------------------
(***************************************************************************)
(* Logger, LoggerManager and the listener that LogIniter registers on the  *)
(* variable "logs" (src/sylar/log.h, log.cc), composed with Config: one    *)
(* side reconfigures the loggers, the other fetches loggers and logs.      *)
(*                                                                         *)
(* A section under one mutex is one action.  Two sections reach further: a *)
(* logger without appenders calls the root logger with its own mutex held, *)
(* and LoggerManager::toYamlString takes each logger's mutex with its own  *)
(* held.  m_level is read and written without a mutex.                     *)
(***************************************************************************)
EXTENDS Config, LogDefine, LogFormatter

CONSTANTS
    Users,        \* threads that log
    Dumpers,      \* threads that call LoggerManager::toYamlString, each once
    Names,        \* names of loggers: integers
    MsgLevels,    \* levels of messages
    DefaultPattern, \* the pattern of a new Logger
    MaxCalls,     \* bound on a user's calls
    Initer,       \* the id of LogIniter's listener
    None

\* Patterns, AppenderDefines and LogDefines.
File_T == STRING
Text_T == Seq(STRING)
Appender_T == [type : {1, 2}, level : Nat, file : File_T, formatter : Text_T]
Define_T == [level : Nat, formatter : Text_T, appenders : Seq(Appender_T)]

ASSUME LogAssumption ==
    /\ Names \subseteq Nat
    /\ Initer \in Static
    /\ None \notin Users \cup Dumpers
    /\ DefaultPattern \in Text_T /\ NoFile \in File_T
    /\ MsgLevels \subseteq Nat /\ MaxCalls \in Nat
    /\ DOMAIN DefaultVal = {}
    /\ \A v \in Values : /\ DOMAIN v \subseteq Names \cup {0}
                         /\ v \in [DOMAIN v -> Define_T]

VARIABLES
    logger,      \* the Logger objects, in the order of their construction
    m_loggers,   \* LoggerManager::m_loggers: name -> logger
    mgr,         \* who holds the manager's mutex over more than one step
    lis,         \* a loader inside LogIniter's listener: its place and locals
    todo,        \* the loggers the dumper has still to visit
    dumped,      \* dumpers that have made their call
    upc,         \* a user's place in a call
    held,        \* its Logger::ptr, 0 before the first call
    msg,         \* the level of its message
    calls,
    res,         \* history: what became of its last message
    crash        \* a null Logger::ptr was dereferenced

userVars == <<upc, held, msg, calls, res>>
dumpVars == <<mgr, todo, dumped>>
logVars == <<logger, m_loggers, dumpVars, lis, userVars, crash>>
vars == <<configVars, logVars>>

-----------------------------------------------------------------------------
\* Logger(name); lock is the holder of its mutex.
NewLogger(name, hasRoot) ==
    [name |-> name, level |-> Level.DEBUG, formatter |-> DefaultPattern,
     appenders |-> <<>>, root |-> hasRoot, lock |-> None]

\* The manager's m_root, registered under the name 0.
Root == 1
RootName == 0
RootLogger == [NewLogger(RootName, FALSE) EXCEPT !.appenders =
                  <<[type |-> 2, level |-> Level.DEBUG, file |-> NoFile,
                     formatter |-> DefaultPattern]>>]

NoListener == [at |-> "out", new |-> {}, old |-> {}, name |-> 0, obj |-> 0,
               k |-> 0]

LogInit ==
    /\ logger = <<RootLogger>>
    /\ m_loggers = [n \in {RootName} |-> Root]
    /\ mgr = None
    /\ todo = {}
    /\ dumped = {}
    /\ lis = [l \in Loaders |-> NoListener]
    /\ upc = [u \in Users |-> "out"]
    /\ held = [u \in Users |-> 0]
    /\ msg = [u \in Users |-> 0]
    /\ calls = [u \in Users |-> 0]
    /\ res = [u \in Users |-> "none"]
    /\ crash = FALSE

Init == ConfigInit /\ LogInit

\* The type invariant.
Logger_T == [name : Names \cup {RootName}, level : Nat, formatter : Text_T,
             appenders : Seq(Appender_T), root : BOOLEAN,
             lock : Users \cup {None}]

Listener_T(objs) == [at : {"out", "pick", "formatter", "appenders", "clear"},
                     new : SUBSET (Names \cup {RootName}),
                     old : SUBSET (Names \cup {RootName}),
                     name : Names \cup {RootName}, obj : objs \cup {0}, k : Nat]

TypeOK ==
    /\ ConfigTypeOK
    /\ logger \in Seq(Logger_T) /\ Root \in DOMAIN logger
    /\ m_loggers \in [DOMAIN m_loggers -> DOMAIN logger]
    /\ DOMAIN m_loggers \subseteq Names \cup {RootName}
    /\ mgr \in Dumpers \cup {None}
    /\ todo \subseteq DOMAIN m_loggers
    /\ dumped \subseteq Dumpers
    /\ lis \in [Loaders -> Listener_T(DOMAIN logger)]
    /\ upc \in [Users -> {"out", "got", "entered", "checked", "root"}]
    /\ held \in [Users -> DOMAIN logger \cup {0}]
    /\ msg \in [Users -> MsgLevels \cup {0}]
    /\ calls \in [Users -> 0..MaxCalls]
    /\ res \in [Users -> {"none", "written", "filtered", "dropped"}]
    /\ crash \in BOOLEAN

-----------------------------------------------------------------------------
\* Mutex::lock goes on when no one holds the mutex.
Unlocked(o) == logger[o].lock = None
MgrUnlocked == mgr = None

\* m[n] = o on a std::map.
Assigned(m, n, o) == [x \in DOMAIN m \cup {n} |-> IF x = n THEN o ELSE m[x]]

\* getLogger(n): the registered logger, else a new one that falls back to the
\* root logger.
Found(n) == IF n \in DOMAIN m_loggers THEN m_loggers[n] ELSE Len(logger) + 1
Got(n) == IF n \in DOMAIN m_loggers THEN logger
          ELSE Append(logger, NewLogger(n, TRUE))
Registered(n) == Assigned(m_loggers, n, Found(n))

\* What an appender lets through, with the global level G_Level() as it starts.
Accepts(a, level) == level >= a.level /\ level >= Level.DEBUG
Outcome(o, level) == IF \E x \in DOMAIN logger[o].appenders :
                            Accepts(logger[o].appenders[x], level)
                     THEN "written" ELSE "filtered"

-----------------------------------------------------------------------------
(* LogIniter's listener, on a loader's thread *)

\* The loader is in the listener, or at its call.
InListener(l, at) == lis[l].at = at /\ ~crash

\* SYLAR_LOG_INFO(SYLAR_LOGGER_ROOT()), which takes the root logger's mutex;
\* then the loop over new_value.
EnterListener(l) ==
    /\ cpc[l] = "calling" /\ Initer \in left[l] /\ InListener(l, "out")
    /\ Unlocked(Root)
    /\ lis' = [lis EXCEPT ![l] = [NoListener EXCEPT
                    !.at = "pick", !.new = DOMAIN new_val[l],
                    !.old = DOMAIN m_val \ DOMAIN new_val[l]]]
    /\ UNCHANGED <<configVars, logger, m_loggers, dumpVars, userVars, crash>>

\* Mutant: a new logger can be found before it has its appenders.
NewIsListed(n) == Assigned(m_loggers, n, Len(logger) + 1)

\* reset(new Logger) lists nothing: addLogger comes last.
NewIsUnlisted(n) == m_loggers

\* The next define: a new Logger when the name is new, getLogger's when the
\* define has changed, and otherwise a null pointer; setLevel at once, which
\* dereferences it.
PickDefine(l) ==
    LET n == Min(lis[l].new)
        d == new_val[l][n]
        Pick(o) == lis' = [lis EXCEPT ![l].at = "formatter", ![l].name = n,
                                      ![l].obj = o, ![l].k = 1]
    IN  /\ InListener(l, "pick") /\ lis[l].new # {}
        /\ \/ /\ n \notin DOMAIN m_val
              /\ logger' = Append(logger, [NewLogger(n, FALSE) EXCEPT
                                               !.level = d.level])
              /\ m_loggers' = NewIsUnlisted(n)
              /\ Pick(Len(logger) + 1)
              /\ UNCHANGED crash
           \/ /\ n \in DOMAIN m_val /\ m_val[n] # d
              /\ MgrUnlocked
              /\ logger' = [Got(n) EXCEPT ![Found(n)].level = d.level]
              /\ m_loggers' = Registered(n)
              /\ Pick(Found(n))
              /\ UNCHANGED crash
           \/ /\ n \in DOMAIN m_val /\ m_val[n] = d
              /\ crash' = TRUE
              /\ UNCHANGED <<logger, m_loggers, lis>>
        /\ UNCHANGED <<configVars, dumpVars, userVars>>

\* The patterns that occur, and isError() of them.
Patterns == {DefaultPattern}
            \cup UNION {{v[n].formatter : n \in DOMAIN v} : v \in Values}
Rejected == {p \in Patterns : IsError(p)}

\* setFormatter, which keeps the old formatter when the pattern is in error.
SetFormatter(l) ==
    LET p == new_val[l][lis[l].name].formatter
    IN  /\ InListener(l, "formatter")
        /\ IF p = <<>> \/ p \in Rejected THEN UNCHANGED logger
           ELSE /\ Unlocked(lis[l].obj)
                /\ logger' = [logger EXCEPT ![lis[l].obj].formatter = p]
        /\ lis' = [lis EXCEPT ![l].at = "appenders"]
        /\ UNCHANGED <<configVars, m_loggers, dumpVars, userVars, crash>>

\* addAppender of the k-th appender: its formatter is the logger's.
AddAppender(l) ==
    LET d == new_val[l][lis[l].name]
        o == lis[l].obj
        a == [d.appenders[lis[l].k] EXCEPT !.formatter = logger[o].formatter]
    IN  /\ InListener(l, "appenders") /\ lis[l].k <= Len(d.appenders)
        /\ Unlocked(o)
        /\ logger' = [logger EXCEPT ![o].appenders = Append(@, a)]
        /\ lis' = [lis EXCEPT ![l].k = @ + 1]
        /\ UNCHANGED <<configVars, m_loggers, dumpVars, userVars, crash>>

\* addLogger, after the last appender.
Publish(l) ==
    /\ InListener(l, "appenders") /\ lis[l].k > Len(new_val[l][lis[l].name].appenders)
    /\ MgrUnlocked
    /\ m_loggers' = Assigned(m_loggers, lis[l].name, lis[l].obj)
    /\ lis' = [lis EXCEPT ![l].at = "pick", ![l].new = @ \ {lis[l].name}]
    /\ UNCHANGED <<configVars, logger, dumpVars, userVars, crash>>

\* The next name that is no longer defined: getLogger, setLevel(100) ...
Silence(l) ==
    LET n == Min(lis[l].old)
    IN  /\ InListener(l, "pick") /\ lis[l].new = {} /\ lis[l].old # {}
        /\ MgrUnlocked
        /\ logger' = [Got(n) EXCEPT ![Found(n)].level = Off]
        /\ m_loggers' = Registered(n)
        /\ lis' = [lis EXCEPT ![l].at = "clear", ![l].name = n,
                              ![l].obj = Found(n)]
        /\ UNCHANGED <<configVars, dumpVars, userVars, crash>>

\* ... and clearAppenders.
Clear(l) ==
    /\ InListener(l, "clear") /\ Unlocked(lis[l].obj)
    /\ logger' = [logger EXCEPT ![lis[l].obj].appenders = <<>>]
    /\ lis' = [lis EXCEPT ![l].at = "pick", ![l].old = @ \ {lis[l].name}]
    /\ UNCHANGED <<configVars, m_loggers, dumpVars, userVars, crash>>

LeaveListener(l) ==
    /\ InListener(l, "pick") /\ lis[l].new = {} /\ lis[l].old = {}
    /\ lis' = [lis EXCEPT ![l] = NoListener]
    /\ Called(l, Initer)
    /\ UNCHANGED <<logger, m_loggers, dumpVars, userVars, crash>>

ListenerStep(l) ==
    \/ EnterListener(l) \/ PickDefine(l) \/ SetFormatter(l)
    \/ AddAppender(l) \/ Publish(l) \/ Silence(l) \/ Clear(l)
    \/ LeaveListener(l)

\* setValue around the listeners; other listeners only take note of the value.
LoaderStep(l) ==
    \/ ListenerStep(l)
    \/ /\ ~crash
       /\ \/ CompareValue(l) \/ EndCalls(l) \/ Store(l)
          \/ \E k \in Listeners \ {Initer} : Called(l, k) /\ lis[l].at = "out"
       /\ UNCHANGED logVars

-----------------------------------------------------------------------------
(* The users *)

CanCall(u) == upc[u] = "out" /\ calls[u] < MaxCalls /\ ~crash
At(u, place) == upc[u] = place /\ ~crash

\* SYLAR_LOG_LEVEL(logger, level) with a logger just fetched ...
FetchLogger(u, n, level) ==
    /\ CanCall(u) /\ MgrUnlocked
    /\ logger' = Got(n)
    /\ m_loggers' = Registered(n)
    /\ held' = [held EXCEPT ![u] = Found(n)]
    /\ msg' = [msg EXCEPT ![u] = level]
    /\ upc' = [upc EXCEPT ![u] = "got"]
    /\ calls' = [calls EXCEPT ![u] = @ + 1]
    /\ res' = [res EXCEPT ![u] = "none"]
    /\ UNCHANGED <<configVars, dumpVars, lis, crash>>

\* ... or with one kept from an earlier call, as the static g_logger are.
KeepLogger(u, level) ==
    /\ CanCall(u) /\ held[u] # 0
    /\ msg' = [msg EXCEPT ![u] = level]
    /\ upc' = [upc EXCEPT ![u] = "got"]
    /\ calls' = [calls EXCEPT ![u] = @ + 1]
    /\ res' = [res EXCEPT ![u] = "none"]
    /\ UNCHANGED <<configVars, logger, m_loggers, dumpVars, lis, held, crash>>

\* The message is through, or given up.
Finish(u, result) ==
    /\ upc' = [upc EXCEPT ![u] = "out"]
    /\ res' = [res EXCEPT ![u] = result]

\* The macro compares getLevel(), and Logger::log the level once more.
CheckLevel(u, from, to) ==
    /\ At(u, from)
    /\ IF msg[u] >= logger[held[u]].level
       THEN upc' = [upc EXCEPT ![u] = to] /\ UNCHANGED res
       ELSE Finish(u, "filtered")
    /\ UNCHANGED <<configVars, logger, m_loggers, dumpVars, lis, held, msg,
                   calls, crash>>

\* Logger::log under the mutex: to the appenders, else to the root logger with
\* the mutex held, else nowhere.
LogLocked(u) ==
    LET o == held[u]
    IN  /\ At(u, "checked") /\ Unlocked(o)
        /\ \/ /\ logger[o].appenders # <<>>
              /\ Finish(u, Outcome(o, msg[u]))
              /\ UNCHANGED logger
           \/ /\ logger[o].appenders = <<>> /\ logger[o].root
              /\ logger' = [logger EXCEPT ![o].lock = u]
              /\ upc' = [upc EXCEPT ![u] = "root"]
              /\ UNCHANGED res
           \/ /\ logger[o].appenders = <<>> /\ ~logger[o].root
              /\ Finish(u, "dropped")
              /\ UNCHANGED logger
        /\ UNCHANGED <<configVars, m_loggers, dumpVars, lis, held, msg, calls,
                       crash>>

\* Mutant: the root logger is fetched by name, under the manager's mutex.
RootByName == Unlocked(Root) /\ MgrUnlocked

\* m_root->log needs the root logger's mutex only.
RootFree == Unlocked(Root)

\* The root logger writes the message and both mutexes are released.
LogToRoot(u) ==
    /\ At(u, "root") /\ RootFree
    /\ Finish(u, IF msg[u] >= logger[Root].level THEN Outcome(Root, msg[u])
                 ELSE "filtered")
    /\ logger' = [logger EXCEPT ![held[u]].lock = None]
    /\ UNCHANGED <<configVars, m_loggers, dumpVars, lis, held, msg, calls,
                   crash>>

\* LoggerManager::toYamlString keeps the manager's mutex ...
DumpAll(d) ==
    /\ d \notin dumped /\ MgrUnlocked /\ ~crash
    /\ dumped' = dumped \cup {d}
    /\ mgr' = d
    /\ todo' = DOMAIN m_loggers
    /\ UNCHANGED <<configVars, logger, m_loggers, lis, userVars, crash>>

\* ... while it takes each logger's in turn.
DumpLogger(d) ==
    /\ mgr = d /\ ~crash
    /\ \E n \in todo :
        /\ Unlocked(m_loggers[n])
        /\ todo' = todo \ {n}
        /\ mgr' = IF todo = {n} THEN None ELSE d
    /\ UNCHANGED <<configVars, logger, m_loggers, dumped, lis, userVars, crash>>

-----------------------------------------------------------------------------
InCall(u) ==
    \/ CheckLevel(u, "got", "entered") \/ CheckLevel(u, "entered", "checked")
    \/ LogLocked(u) \/ LogToRoot(u)

StartCall(u) ==
    \E level \in MsgLevels : \/ KeepLogger(u, level)
                            \/ \E n \in Names : FetchLogger(u, n, level)

ConfigCall ==
    /\ ~crash
    /\ \/ \E l \in Loaders, key \in Keys, t \in Texts : Load(l, key, t)
       \/ \E k \in Listeners \ Static : AddListener(k) \/ DelListener(k)
    /\ UNCHANGED logVars

Next ==
    \/ ConfigCall
    \/ \E l \in Loaders : LoaderStep(l)
    \/ \E u \in Users : StartCall(u) \/ InCall(u)
    \/ \E d \in Dumpers : DumpAll(d) \/ DumpLogger(d)

Spec == Init /\ [][Next]_vars

\* Threads inside a call keep running, and a mutex is handed on.
FairSpec ==
    /\ Spec
    /\ \A l \in Loaders : WF_vars(LoaderStep(l))
    /\ \A u \in Users : WF_vars(InCall(u))
    /\ \A d \in Dumpers : WF_vars(DumpLogger(d))

-----------------------------------------------------------------------------
(* Properties *)

\* When no load is under way the loggers are what the stored value says: every
\* define's logger is registered with the define's level, with its formatter if
\* the pattern is valid, and with its appenders behind the ones it had; a logger
\* once configured and no longer defined is silent; and every listener was told
\* the value (unless setValue was between its listener loop and the store when
\* the listener was registered).
ConfigApplied ==
    (~crash /\ \A l \in Loaders : cpc[l] = "out") =>
        /\ \A n \in DOMAIN m_val :
            /\ n \in DOMAIN m_loggers
            /\ LET o == logger[m_loggers[n]]
                   d == m_val[n]
                   before == Len(o.appenders) - Len(d.appenders)
               IN  /\ o.level = d.level
                   /\ (d.formatter # <<>> /\ d.formatter \notin Rejected) =>
                            o.formatter = d.formatter
                   /\ before >= 0
                   /\ \A x \in DOMAIN d.appenders :
                        /\ o.appenders[before + x].type = d.appenders[x].type
                        /\ o.appenders[before + x].file = d.appenders[x].file
                        /\ o.appenders[before + x].formatter = o.formatter
        /\ \A n \in DOMAIN m_loggers \ DOMAIN m_val :
            LET o == logger[m_loggers[n]]
            IN  \/ o.root \/ m_loggers[n] = Root
                \/ o.level = Off /\ o.appenders = <<>>
        /\ \A k \in m_cbs \ late : told[k] = m_val

\* The logger was removed, or is defined without any appender in the value that
\* is stored or in one that is being applied.
Bare(v, n) == n \in DOMAIN v /\ v[n].appenders = <<>>
MayDrop(o) == \/ o.level = Off \/ Bare(m_val, o.name)
              \/ \E l \in Loaders : Bare(new_val[l], o.name)

\* A message is dropped only by a logger that may drop it: a user never meets a
\* logger that is accepting messages and has nowhere to write them, whatever the
\* listener is doing to it.
NothingDropped ==
    [][\A u \in Users : (res[u] # "dropped" /\ res'[u] = "dropped") =>
                            MayDrop(logger[held[u]])]_vars

\* Every call returns: the manager's mutex, the loggers' and the variable's lock
\* are never taken in a circle (while no null logger ends the process).
CallsReturn ==
    /\ \A u \in Users : upc[u] # "out" ~> (upc[u] = "out" \/ crash)
    /\ \A d \in Dumpers : mgr = d ~> (mgr = None \/ crash)
    /\ \A l \in Loaders : cpc[l] # "out" ~> (cpc[l] = "out" \/ crash)

\* The patterns and the values in use that are handled as they should be.
GoodPatterns == {p \in Patterns : Handled(p) /\ ~IsError(p)}
GoodValues == {v \in Values : Survives(v)}

\* A pattern is accepted and rendered token by token as the comment on init()
\* says, not a character lost or doubled, exactly when it is well formed and has
\* no token that init() misreads (%%, a format with other characters than
\* letters, a name with a } behind it); one that is not well formed is rejected.
\* No pattern that is rejected becomes the formatter of a logger.
PatternsParse ==
    /\ Unhandled = {}
    /\ \A o \in DOMAIN logger : logger[o].formatter \in GoodPatterns

\* What ConfigVar::toString writes for the logs, fromString reads back as the
\* same set of defines: the stored value can be written out and loaded again
\* without a logger changing.
RoundTrip == Unstable = {} /\ m_val \in GoodValues
=============================================================================
