\* The whole service: update, start, stop, leave, health checks, monitor.
CONSTANTS
    MaxThreads <- MCMaxThreads
    MaxMsgs <- MCMaxMsgs
    MaxRequests <- MCMaxRequests
SPECIFICATION Spec
INVARIANT TypeOK
INVARIANT SingleActiveMonitor
PROPERTY JobLockRefined
\* Once the operator calls are used up the service rests: nothing is left to do.
CHECK_DEADLOCK FALSE
