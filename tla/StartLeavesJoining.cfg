CONSTANTS
    MaxThreads <- MCMaxThreads
    MaxMsgs <- MCMaxMsgs
    MaxRequests <- MCMaxRequests
SPECIFICATION Spec
PROPERTY StartNeverLeavesJoining
CHECK_DEADLOCK FALSE
