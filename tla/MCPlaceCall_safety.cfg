\* Every interleaving of one call with two tracks, against the invariants of
\* the call and the abstract call.
SPECIFICATION Spec
CONSTANTS
    video = video
    audio = audio
    Kinds <- MCKinds
    MaxTrickle = 2
SYMMETRY Symm
INVARIANTS
    TypeOK
    SinkQuiet
    NothingLeft
    DeadPeerNoticed
    KeyframeReachesCamera
    DeclaredArePumped
    Explained
PROPERTY
    KeepsPromise
