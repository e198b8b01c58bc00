\* One worker, two fibers on one descriptor: every hooked call.
SPECIFICATION FairSpec
CONSTANTS
    Fds = {fd1}
    Managed = {fd1}
    Fibers = {f1, f2}
    NoFiber = nofiber
    Workers = 1
    Ops = {"read", "write", "connect", "close", "socket", "init", "fcntl", "ioctl", "setsockopt", "sleep"}
    NonblockArgs = {TRUE}
    FullDuplex = FALSE
    MaxCalls = 5
INVARIANTS WokenOnce StaysWatched TimeoutIsReal FreshContext NeverBlocksWorker
PROPERTIES TimedWaitEnds ReadyResumes
