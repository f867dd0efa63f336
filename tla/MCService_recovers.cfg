\* The proxy, a second process, their identity, websockets and sessions.
SPECIFICATION Spec
CONSTANTS
    NoId = NoId
    MaxDicts = 5
    proxy = proxy
    second = second
    cam1 = cam1
    cam2 = cam2
    Procs <- MCProcs
    Cameras <- MCCameras
    wanted = NoId
    PoolSize = 2
    MaxSessions = 3
    MaxMishaps = 2
INVARIANTS
    TypeOK
    NoForeignSignal
    OrphansExcused
    OneWebsocketPerInstall
PROPERTY
    Recovers
