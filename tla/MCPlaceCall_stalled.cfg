\* A reader that keeps its end open without reading: the signal handler is
\* never run.
SPECIFICATION FairSpec
CONSTANTS
    video = video
    audio = audio
    Kinds = {video}
    MaxTrickle = 1
PROPERTY
    SignalUnwinds
