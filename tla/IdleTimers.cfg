\* Two workers; timers of the application and of tasks, whose callbacks schedule more.
SPECIFICATION Spec
CONSTANTS
    Threads = {t1, t2}
    Caller = app
    MAX_TIMEOUT = 2
    Delays = {0, 1}
    TaskOps = {"task", "timer"}
    ForeignOps = {"timer"}
    MaxTasks = 1
    MaxTimers = 2
    MaxSignals = 0
INVARIANTS IdleCountExact NoLostTask NoOversleep
SYMMETRY Symmetry
