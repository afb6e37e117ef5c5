CONSTANTS
    n1 = n1
    n2 = n2
    n3 = n3
    Name = {n1, n2, n3}
    MinPort = 1
    MaxPort = 4
    MaxBusinesses = 3
SPECIFICATION Spec
SYMMETRY Names
INVARIANTS
    StartsIffLegal
    RefusedIsIllegal
CHECK_DEADLOCK FALSE
