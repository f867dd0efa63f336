\* Every description of one call, and every candidate over the chosen numbers.
SPECIFICATION Call
CONSTANTS
    Foundations <- MCFoundations
    Priorities <- MCPriorities
    Octets <- MCOctets
    Middles <- MCMiddles
    Ports <- MCPorts
    Word <- MCWord
    Endings <- MCEndings
    Fingerprints <- MCFingerprints
    Nothing = Nothing
INVARIANTS
    ExpandsToItsLine
    GenuineIsRead
    ThreeDigitsAreExact
    TrickleFitsOffer
    AnswerFitsOffer
    TextRestored
CHECK_DEADLOCK FALSE
