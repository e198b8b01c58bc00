\* One thread: every operation and both events of a descriptor.
SPECIFICATION FairSpec
CONSTANTS
    Threads = {t1}
    Fds = {fd1}
    Events = {"READ", "WRITE"}
    AppOps = {"del", "cancel", "all"}
    Errors = TRUE
    MaxAdds = 3
INVARIANTS PendingCountExact Consistent NoLostEdge
PROPERTY ReadyIsDelivered
