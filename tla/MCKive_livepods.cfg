CONSTANTS
    n1 = n1  n2 = n2  k1 = k1  k2 = k2  None = None
    Node = {n1}
    Kernel = {k1}
    KernelOf <- OneKernel
    NumPolicies = 1
    NumTraps = 1
    NumPods = 1
    NumKeys = 2
    MaxInst = 2
    IP = {a1}
    NodeOf <- AllOnN1
    Selects <- SelectAll
    FileOf <- FilePerContainer
    MaxUser = 1
    MaxPodEvents = 1
    MaxFaults = 0
    MaxCrashes = 0
    MapMax = 1
    FreshCaches = TRUE
    PodCandidate = {n1}
    ResyncOn = TRUE
SPECIFICATION FairSpec
INVARIANTS TypeOK MapBacked PodSparesLive
PROPERTIES Converged
CHECK_DEADLOCK FALSE
