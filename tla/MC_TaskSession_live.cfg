SPECIFICATION FairSpec
CONSTANTS
    b1 = b1
    b2 = b2
    p1 = p1
    p2 = p2
    p3 = p3
    t1 = t1
    t2 = t2
    NoHost = NoHost
    NoText = NoText
    None = None
    Hosts = {b1}
    Prompts = {p1, p2}
    Texts = {t1}
    Answers = {"ok", "err"}
    MaxFaults = 1
    MaxQueued = 1
    MaxUp = 1
    MaxClaims = 1
    MaxHolders = 1
    MaxRestarts = 0
    Commands = {"config"}
PROPERTIES ChatMoves
CHECK_DEADLOCK FALSE
