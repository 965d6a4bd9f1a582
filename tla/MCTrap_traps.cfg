CONSTANTS
    Container = {1, 2, 3}
    PodOf <- TwoPods
    NumItems = 4
    Picked <- Labels
    ByIP = {1}
    NameFits <- Names
    Broken = {3}
    matchID <- OwnIDs
    Local = {2, 3}
    Ino = {7, 8}
    MaxStarts = 2
    MaxEvents = 1
    MaxFaults = 1
SPECIFICATION FairSpec
INVARIANTS TypeOK Covered OnePerPass
PROPERTIES Monitored
