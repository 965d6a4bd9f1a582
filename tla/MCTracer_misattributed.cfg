CONSTANTS
    d1 = d1  d2 = d2  d3 = d3  None = None
    Data = {d1, d3}
    InodeOf <- Inodes
    DevOf <- Devices
    KernelOf <- AllHere
    Callback = {}
    Here = "here"
    Release <- Modern
    MapMax = 2
    RingMax = 1
    MaxLoads = 3
    MaxFaults = 0
    MaxAccess = 1
    MaxChanges = 2
    MaxStops = 0
SPECIFICATION Spec
INVARIANTS RightData
CHECK_DEADLOCK FALSE
