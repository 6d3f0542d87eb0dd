SPECIFICATION HostSpec
CONSTANTS
    MaxJobs = 2
    MaxReports = 2
    MaxSaveFaults = 1
    MaxMoves = 4
    LogLimit = 4
    TailLimit = 1
    MaxPrompts = 2
    MaxChunks = 2
    MaxOpens = 2
    MaxCrashes = 1
    MaxRespawns = 1
    MaxEffort = 5
    Streamed = {"tests", "input", "answered", "waiting", "error"}
    MaxBatch = 2
    MaxReportFaults = 1
    MaxHostCrashes = 1
    MaxTurns = 2
    MaxDisturbs = 2
    MaxMixed = 3
    MaxShims = 2
    MaxLines = 4
    MaxConns = 2
    MaxShimCrashes = 2
    MaxAcpTurns = 2
    MaxAcpFaults = 1
    MaxAcpAsks = 1
    MaxAcpMixed = 2
    MaxBridges = 3
    MaxBytes = 4
    ChanLimit = 2
    BatchLimit = 2
    MaxKeys = 1
    MaxResizes = 2
    MaxTries = 1
    MaxAttaches = 2
    Tool = {"t"}
    SettleGrace = 0
    ExitFor = 0
    FreshFor = 1
    MaxClock = 2
    MaxAgentSteps = 4
    web = web
    cli = cli
    a = a
    b = b
    Webs = {web}
    Natives = {cli}
    Tasks = {a, b}
    MaxEdits = 2
    MaxRev = 2
    Request = {"p", "q", "r"}
    NoId = "none"
    Keep = 2
    MaxSends = 4
    MaxGateFaults = 2
    Endpoint = {"e", "f"}
    Attempts = 3
    MaxHubEvents = 4
    MaxHubFaults = 1
    Chat = {"a", "b"}
    Caller = {"v", "w"}
    MaxActors = 2
    MaxVisits = 2
    MaxIdle = 1
    MaxLosses = 1
    ClaimTries = 1
    MaxQuirks = 1
    MaxChoices = 1
    MaxRounds = 2
INVARIANTS
    HostTypeOK RequestRunsOnce SubscriptionsStored HandlersAgree DirectoryServes
    ChatIsShown ActivityIsTrue TurnsAnswered ShimServes AcpTurnServed PinFaithful
    TerminalsServed AttachFaithful EvidenceIsRead
PROPERTIES
    SavesKeepOthers
VIEW HostView
CHECK_DEADLOCK FALSE
