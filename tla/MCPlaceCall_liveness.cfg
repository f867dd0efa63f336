\* The call unwinds and the handshake decides, as long as the reader of the
\* sink eventually reads.
SPECIFICATION ServedSpec
CONSTANTS
    video = video
    audio = audio
    Kinds = {video}
    MaxTrickle = 1
PROPERTIES
    EveryEndUnwinds
    HandshakeDecides
