SPECIFICATION FairSpec
CONSTANTS
    Data = {"a", "f"}
    Messages <- AllMessages
    MaxFragment = 5
    MaxOthers = 1
    SizeLimit = 4
    TrailerLimit = 7
    MaxBodySize = 4
    Slack = 4
    DiskFaults = TRUE
INVARIANTS TypeOK ChunksDecoded EndsWhereItEnds FilesFaithful OthersKept
PROPERTIES BodyServed
CHECK_DEADLOCK FALSE
