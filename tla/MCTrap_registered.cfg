CONSTANTS
    Container = {1, 2, 3}
    PodOf <- TwoPods
    NumItems = 4
    Picked <- Labels
    ByIP = {1}
    NameFits <- Names
    Broken = {3}
    matchID <- JoinedIDs
    Local = {2, 3}
    Ino = {7}
    MaxStarts = 1
    MaxEvents = 0
    MaxFaults = 0
SPECIFICATION Spec
INVARIANTS SkipsRegistered
