SPECIFICATION ElasticFairSpec
CONSTANTS
    Size = 2
    MinActive = 1
    ScaleOutWaiting = 1
    ScaleOutRequests = 2
    ScaleInRequests = 1
    Unit = 1
    ScaleOutWindows = 1
    ScaleInWindows = 2
    Cooldown = 1
    Agents = {a1, a2}
    None = None
    Delays = {1}
    MaxConcurrent = 1
PROPERTIES
    StandbyIsEmptied
    DrainsEnd
