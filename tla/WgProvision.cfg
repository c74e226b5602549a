CONSTANTS
    Absent = Absent
    Torn = Torn
    Runs = {r1, r2}
    Users = {u1, u2}
    FirstIndex = 2
    MaxHost = 4
    MaxStarts = 4
    MaxFaults = 1
SYMMETRY Symmetry
SPECIFICATION Spec
INVARIANTS TypeOK OneAddressEach ShownWorks
CHECK_DEADLOCK FALSE
