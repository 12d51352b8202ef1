SPECIFICATION FairSpec
CONSTANTS
    Scripts <- SomeScripts
    BodySizes = {0, 2}
    Encodings = {"length", "chunked"}
    StdinRoom = 1
    ReadPieces = 2
    SessionEnds = TRUE
INVARIANTS TypeOK OutputInOrder StdinWhole EofIsWhole
PROPERTIES BodyDelivered OutputFlushed
CHECK_DEADLOCK FALSE
