\* A fiber holds while a second worker is running.
SPECIFICATION Spec
CONSTANTS
    Workers = {w1, w2}
    Root = root
    UseCaller = FALSE
    AnyThread = any
    Cbs = {}
    UserFibers = {f1}
    NoJob = nojob
    CbOps = {}
    FiberOps = {"hold"}
    AppPins = {any}
    SpawnPins = {any}
    MaxYields = 1
    MaxRounds = 1
INVARIANT ExclusiveExecution
