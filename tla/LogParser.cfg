CONSTANTS
    d1 = d1
    d2 = d2
    Root = Root
    name = name
    reverse = reverse
    a1 = a1
    a2 = a2
    Hosts <- MCHosts
    Owners <- MCOwners
    Leading <- MCLeading
    Addrs <- MCAddrs
    Handlers = {h1, h2}
    Window = 1
    MaxTime = 2
    MaxLines = 4
    Pairs = {e1, e2}
CONSTRAINTS Taken BehindArrow
SYMMETRY Symmetry
CHECK_DEADLOCK FALSE
SPECIFICATION BothSpec
INVARIANTS TypeOK EntriesNear AddressesCredited
PROPERTY LeavesMapOnlyBy
