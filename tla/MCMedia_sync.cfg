\* Every arrival pattern of both tracks over a short call, with a video clock
\* that gains faster than any delay can hide.
SPECIFICATION MediaSpec
CONSTANTS
    VideoTick = 2
    Period <- MCPeriod
    MaxDelay = 3
    Gain = 2
    AudioStart = 5
    MaxTime = 8
    NoShift = NoShift
    VideoUnits <- MCVideoUnits
    AudioUnits <- MCAudioUnits
INVARIANTS
    InStep
    GroupsMarked
    HeadersShed
PROPERTIES
    AudioCadence
CHECK_DEADLOCK FALSE
