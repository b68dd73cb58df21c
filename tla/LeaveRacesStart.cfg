CONSTANTS
    MaxThreads <- MCMaxThreads
    MaxMsgs <- MCMaxMsgs
    MaxRequests <- MCMaxRequests
SPECIFICATION Spec
INVARIANT CredExclusive
CHECK_DEADLOCK FALSE
