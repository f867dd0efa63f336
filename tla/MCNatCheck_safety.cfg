\* Two ports, three receives, two copies.
SPECIFICATION FairSpec
CONSTANTS
    p1 = p1
    p2 = p2
    Ports <- MCPorts
    NoPort = NoPort
    Receives = 3
    MaxCopies = 2
INVARIANTS
    TypeOK
    PublishesFirstMapping
    SymmetricIsSymmetric
    RegisteredIsPublished
PROPERTY
    Terminates
