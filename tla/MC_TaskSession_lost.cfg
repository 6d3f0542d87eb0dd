SPECIFICATION Spec
CONSTANTS
    b1 = b1
    b2 = b2
    p1 = p1
    p2 = p2
    p3 = p3
    t1 = t1
    t2 = t2
    NoHost = NoHost
    NoText = NoText
    None = None
    Hosts = {b1, b2}
    Prompts = {p1}
    Texts = {t1}
    Answers = {"ok"}
    MaxFaults = 1
    MaxQueued = 1
    MaxUp = 1
    MaxClaims = 2
    MaxHolders = 1
    MaxRestarts = 0
    Commands = {"reset"}
PROPERTIES LostStartsNothing
SYMMETRY Symmetric
CHECK_DEADLOCK FALSE
