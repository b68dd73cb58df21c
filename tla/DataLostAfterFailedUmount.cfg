CONSTANTS
    p1 = p1
    p2 = p2
    Boot = Boot
    NoPool = NoPool
    DataPools <- MCDataPools
    Roomy <- MCRoomyAll
    Locked <- MCLocked
    MaxJobs = 3
    MaxRequests = 2
    MaxEvents = 2
SPECIFICATION Spec
INVARIANT DataNotLost
CHECK_DEADLOCK FALSE
