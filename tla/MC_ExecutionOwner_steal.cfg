SPECIFICATION Spec
CONSTANTS
    b1 = b1
    b2 = b2
    b3 = b3
    Hosts = {b1, b2, b3}
    NoHost = NoHost
    StaleAfter = 2
    MaxFailures = 2
SYMMETRY Symmetric
PROPERTIES OnlyUnhealthyReplaced
CHECK_DEADLOCK FALSE
