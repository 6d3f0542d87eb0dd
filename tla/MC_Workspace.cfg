SPECIFICATION WorkspaceSpec
CONSTANTS
    StartModes = {TRUE, FALSE}
    MaxStarts = 1
    MaxFaults = 2
    MaxRepairs = 1
    MaxEvents = 1
    ConfirmFor = 1
    QuietFor = 1
    MaxHappenings = 2
    MaxDeliverFaults = 1
    Capacity = 1
    HangAfter = 1
    MaxOutput = 1
    MaxTroubles = 1
    MaxFlows = 2
    MaxProbes = 1
    Socket = {s1, s2}
    MaxDictations = 2
    MaxSpeech = 2
    FrameLimit = 2
    EventLimit = 2
INVARIANTS
    WorkspaceTypeOK WorktreeHasRecord
PROPERTIES
    DroppedIsGone DropConverges NewsArrives
    SupervisorServes SignInServes SpeechServes
CHECK_DEADLOCK FALSE
