\* A stop job whose teardown raises after set_state(LEAVING).
CONSTANTS
    MaxThreads <- MCMaxThreads
    MaxMsgs <- MCMaxMsgs
    MaxRequests <- MCMaxRequests
SPECIFICATION Spec
INVARIANT LeavingOnlyDuringStop
CHECK_DEADLOCK FALSE
