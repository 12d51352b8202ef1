SPECIFICATION FairSpec
CONSTANTS
    Ports = 1
    Pid = {p1}
    MaxToken = 4
    MaxClients = 1
    MaxBatch = 2
    Overlap = FALSE
    PollErrors = FALSE
    NoToken = NoToken
    NoPid = NoPid
INVARIANTS ChildrenAccounted
PROPERTIES ReapsChildren ScriptsEnd
