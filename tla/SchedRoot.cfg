\* Only the root thread: stop() drains the list in the root fiber.
SPECIFICATION FairSpec
CONSTANTS
    Workers = {}
    Root = root
    UseCaller = TRUE
    AnyThread = any
    Cbs = {c1, c2}
    UserFibers = {f1}
    NoJob = nojob
    CbOps = {"throw", "spawn"}
    FiberOps = {"ready", "spawn"}
    AppPins = {any, root}
    SpawnPins = {any, root}
    MaxYields = 2
    MaxRounds = 1
INVARIANT DrainedAtJoin
PROPERTY DrainingStopReturns
