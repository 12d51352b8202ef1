SPECIFICATION FairSpec
CONSTANTS
    Scripts <- LongScript
    BodySizes = {0}
    Encodings = {"length"}
    StdinRoom = 2
    ReadPieces = 2
    SessionEnds = FALSE
PROPERTIES WholeOutput
CHECK_DEADLOCK FALSE
