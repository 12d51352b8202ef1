SPECIFICATION FairSpec
CONSTANTS
    Programs <- ChunkedUpload
    Pipelines <- NoPrograms
    FileChunks = 2
    SendBuffer = 2
    ReadLimit = 2
    DiskFaults = FALSE
PROPERTY AllAnswered
CHECK_DEADLOCK FALSE
