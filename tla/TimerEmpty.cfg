\* Two threads poll one timer.
SPECIFICATION Spec
CONSTANTS
    Timers = {1}
    Listers = {l1, l2}
    Periods = {1}
    Kinds = {FALSE}
    AppOps = {}
    MaxTime = 2
    MaxRearms = 0
INVARIANT NoEmptyDeref
