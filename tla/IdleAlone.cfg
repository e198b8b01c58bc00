\* One worker; tasks schedule and add timers, a signal may interrupt epoll_wait.
SPECIFICATION FairSpec
CONSTANTS
    Threads = {t1}
    Caller = app
    MAX_TIMEOUT = 3
    Delays = {0, 2}
    TaskOps = {"task", "timer"}
    ForeignOps = {"task"}
    MaxTasks = 2
    MaxTimers = 2
    MaxSignals = 1
INVARIANTS AllServedAtExit StopWakesAll
PROPERTIES TimersServed StopCompletes
