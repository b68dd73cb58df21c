CONSTANTS
    p1 = p1
    p2 = p2
    Boot = Boot
    NoPool = NoPool
    DataPools <- MCDataPools
    Roomy <- MCRoomy
    Locked <- MCLocked
    MaxJobs = 4
    MaxRequests = 1
    MaxEvents = 3
SPECIFICATION FairSpec
PROPERTY UpdateTerminates
CHECK_DEADLOCK FALSE
