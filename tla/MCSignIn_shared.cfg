\* Two processes on one state directory, restarted without end.
SPECIFICATION FairSpec
CONSTANTS
    proxy = proxy
    lister = lister
    Procs <- Both
    MaxMishaps = 3
INVARIANTS
    TypeOK
    LoginsAccounted
    RunSignsInTwice
PROPERTY
    Recovers
