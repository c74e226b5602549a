CONSTANTS
    a1 = a1
    a2 = a2
    Addrs <- MCAddrs
    MaxChanges = 3
    MaxFailures = 2
CONSTRAINT FirstIsA1
SPECIFICATION BothSpec
INVARIANTS TypeOK NoneForgotten OnlyTheBots ActiveMeansRouted
PROPERTIES RouterSynced Recovers
