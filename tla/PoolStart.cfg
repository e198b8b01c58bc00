\* A pool of three workers is started and stopped beside one thread of the application; two calls of
\* pthread_create or sem_wait may fail.  In the end every thread has terminated.
SPECIFICATION FairSpec
CONSTANTS
    N = 3
    Own = {7}
    MaxFaults = 2
INVARIANT HandshakeHolds
PROPERTY StartReturns
CHECK_DEADLOCK FALSE
