CONSTANTS
    MaxThreads <- MCMaxThreads
    MaxMsgs <- MCMaxMsgs
    MaxRequests <- MCMaxRequests
SPECIFICATION Spec
PROPERTY FaultNeverSwallowed
CHECK_DEADLOCK FALSE
