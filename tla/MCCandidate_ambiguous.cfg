\* A genuine candidate whose line splits in two ways.
SPECIFICATION Spec
CONSTANTS
    Foundations <- MCFoundations
    Priorities <- MCPriorities
    Octets <- MCOctets
    Middles <- MCMiddles
    Ports <- MCPorts
INVARIANT
    OnlyOneSplit
CHECK_DEADLOCK FALSE
