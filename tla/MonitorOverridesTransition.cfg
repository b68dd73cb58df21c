CONSTANTS
    MaxThreads <- MCMaxThreads
    MaxMsgs <- MCMaxMsgs
    MaxRequests <- MCMaxRequests
SPECIFICATION Spec
PROPERTY MonitorRespectsTransitions
CHECK_DEADLOCK FALSE
