CONSTANTS
    n1 = n1  n2 = n2  k1 = k1  k2 = k2  None = None
    Node = {n1}
    Kernel = {k1}
    KernelOf <- OneKernel
    NumPolicies = 1
    NumTraps = 1
    NumPods = 1
    NumKeys = 1
    MaxInst = 1
    IP = {a1}
    NodeOf <- AllOnN1
    Selects <- SelectAll
    FileOf <- SharedFile
    MaxUser = 3
    MaxPodEvents = 0
    MaxFaults = 1
    MaxCrashes = 0
    MapMax = 2
    FreshCaches = FALSE
    PodCandidate = {}
    ResyncOn = FALSE
SPECIFICATION FairSpec
INVARIANTS PolicySettled DataSettled MapBacked
PROPERTIES PolicyDeleted DataDeleted KeepsPromise
CHECK_DEADLOCK FALSE
