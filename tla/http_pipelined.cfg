SPECIFICATION FairSpec
CONSTANTS
    Programs <- NoPrograms
    Pipelines <- FileThenPage
    FileChunks = 2
    SendBuffer = 2
    ReadLimit = 2
    DiskFaults = FALSE
INVARIANT AnswersInOrder
CHECK_DEADLOCK FALSE
