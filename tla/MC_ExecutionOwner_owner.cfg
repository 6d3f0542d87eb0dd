SPECIFICATION FairSpec
CONSTANTS
    b1 = b1
    b2 = b2
    b3 = b3
    Hosts = {b1, b2}
    NoHost = NoHost
    StaleAfter = 2
    MaxFailures = 2
INVARIANTS TypeOK HealthyOwnerFresh
PROPERTIES TakeoverJustified ImplementsLease LeaseSettles
CHECK_DEADLOCK FALSE
