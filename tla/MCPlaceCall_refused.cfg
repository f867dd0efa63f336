\* A sink that cannot be opened leaves a session that nobody releases.
SPECIFICATION Spec
CONSTANTS
    video = video
    audio = audio
    Kinds = {video}
    MaxTrickle = 1
INVARIANT
    SessionReleased
