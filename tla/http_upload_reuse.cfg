SPECIFICATION FairSpec
CONSTANTS
    Programs <- UploadThenPage
    Pipelines <- NoPrograms
    FileChunks = 2
    SendBuffer = 2
    ReadLimit = 2
    DiskFaults = FALSE
INVARIANT AnswersInOrder
CHECK_DEADLOCK FALSE
