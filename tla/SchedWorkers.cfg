\* Two workers, started and stopped twice.  Callbacks may throw
\* and schedule more work; the fiber also yields and is run again.
SPECIFICATION FairSpec
CONSTANTS
    Workers = {w1, w2}
    Root = root
    UseCaller = FALSE
    AnyThread = any
    Cbs = {c1, c2}
    UserFibers = {f1}
    NoJob = nojob
    CbOps = {"throw", "spawn"}
    FiberOps = {"ready", "throw", "spawn"}
    AppPins = {any, w1}
    SpawnPins = {any}
    MaxYields = 1
    MaxRounds = 2
INVARIANTS ExclusiveExecution ActiveCountExact OneRepresentative
PROPERTIES ImplementsPool StopReturns JobsComplete
