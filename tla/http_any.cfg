SPECIFICATION FairSpec
CONSTANTS
    Programs <- AllPrograms
    Pipelines <- AllPrograms
    FileChunks = 2
    SendBuffer = 2
    ReadLimit = 2
    DiskFaults = TRUE
INVARIANTS TypeOK OrderlyStored NoLostWakeup
PROPERTIES OrderlyExchange OrderlyAnswered OrderlyRemoved
CHECK_DEADLOCK FALSE
