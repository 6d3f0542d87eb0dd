SPECIFICATION Spec
CONSTANTS
    b1 = b1
    b2 = b2
    p1 = p1
    p2 = p2
    p3 = p3
    t1 = t1
    t2 = t2
    NoHost = NoHost
    NoText = NoText
    None = None
    Hosts = {b1}
    Prompts = {p1, p2, p3}
    Texts = {t1}
    Answers = {"ok", "err"}
    MaxFaults = 0
    MaxQueued = 2
    MaxUp = 1
    MaxClaims = 1
    MaxHolders = 1
    MaxRestarts = 1
    Commands = {"detach", "restart", "config", "reset"}
INVARIANTS RestartReplaces InOrder TurnIsDurable
SYMMETRY Symmetric
CHECK_DEADLOCK FALSE
