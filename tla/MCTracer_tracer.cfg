CONSTANTS
    d1 = d1  d2 = d2  d3 = d3  None = None
    Data = {d1, d2}
    InodeOf <- Inodes
    DevOf <- Devices
    KernelOf <- AllHere
    Callback = {d2}
    Here = "here"
    Release <- Around
    MapMax = 2
    RingMax = 1
    MaxLoads = 3
    MaxFaults = 1
    MaxAccess = 2
    MaxChanges = 2
    MaxStops = 1
SPECIFICATION FairSpec
INVARIANTS TypeOK OnePath OneEvent Backed
PROPERTIES KeepsPromise Traced Drained
CHECK_DEADLOCK FALSE
