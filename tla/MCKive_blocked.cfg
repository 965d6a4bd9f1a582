CONSTANTS
    n1 = n1  n2 = n2  k1 = k1  k2 = k2  None = None
    Node = {n1}
    Kernel = {k1}
    KernelOf <- OneKernel
    NumPolicies = 1
    NumTraps = 1
    NumPods = 2
    NumKeys = 2
    MaxInst = 1
    IP = {a1}
    NodeOf <- AllOnN1
    Selects <- SelectAll
    FileOf <- FilePerPod
    MaxUser = 1
    MaxPodEvents = 1
    MaxFaults = 0
    MaxCrashes = 0
    MapMax = 2
    FreshCaches = TRUE
    PodCandidate = {}
    ResyncOn = TRUE
SPECIFICATION FairSpec
PROPERTIES AlwaysMonitored
CHECK_DEADLOCK FALSE
