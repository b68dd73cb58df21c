CONSTANTS
    MaxThreads <- MCMaxThreads
    MaxMsgs <- MCMaxMsgs
    MaxRequests <- MCMaxRequests
SPECIFICATION FairSpec
PROPERTY StopTerminates
CHECK_DEADLOCK FALSE
