\* The first server's push comes late and is taken for the second's answer.
SPECIFICATION Spec
CONSTANTS
    p1 = p1
    p2 = p2
    Ports <- MCPorts
    NoPort = NoPort
    Receives = 6
    MaxCopies = 1
INVARIANT
    SecondServerDecides
