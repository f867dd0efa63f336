\* Every way to cut three replies short and into pieces; the longest is as long
\* as a frame may be.
SPECIFICATION Spec
CONSTANTS
    Replies <- MCReplies
    Lies <- MCLies
    VERSION <- MCVersion
    Trailers <- MCTrailers
    MaxFrame = 155
    Chunk = 3
INVARIANTS
    KnownAnswers
    WholeOrNothing
    MissingNotMangled
    BoundedRead
    WholeFrames
CHECK_DEADLOCK FALSE
