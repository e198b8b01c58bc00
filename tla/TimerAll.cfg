\* Recurring and one-shot timers, two polling threads, every call of the application.
SPECIFICATION FairSpec
CONSTANTS
    Timers = {1, 2}
    Listers = {l1, l2}
    Periods = {1, 2}
    Kinds = {TRUE, FALSE}
    AppOps = {"cancel", "refresh", "reset"}
    MaxTime = 2
    MaxRearms = 1
INVARIANTS NoTimerLost OneOwner
PROPERTIES ImplementsService DueIsServed
