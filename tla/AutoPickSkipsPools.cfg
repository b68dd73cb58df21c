CONSTANTS
    p1 = p1
    p2 = p2
    Boot = Boot
    NoPool = NoPool
    DataPools <- MCDataPools
    Roomy <- MCRoomy
    Locked <- MCLocked
    MaxJobs = 3
    MaxRequests = 2
    MaxEvents = 3
SPECIFICATION Spec
PROPERTY AutoPickFindsPool
CHECK_DEADLOCK FALSE
