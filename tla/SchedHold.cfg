\* One worker; functions hold and are scheduled again by someone else.
SPECIFICATION FairSpec
CONSTANTS
    Workers = {w1}
    Root = root
    UseCaller = FALSE
    AnyThread = any
    Cbs = {c1, c2}
    UserFibers = {f1}
    NoJob = nojob
    CbOps = {"hold", "throw"}
    FiberOps = {"ready", "hold", "spawn"}
    AppPins = {any, w1}
    SpawnPins = {any}
    MaxYields = 2
    MaxRounds = 1
INVARIANTS NoAssertionFails HeldIsReferenced
PROPERTY HeldJobsComplete
