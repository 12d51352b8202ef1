SPECIFICATION Spec
CONSTANTS
    Ports = 1
    Pid = {p1, p2}
    MaxToken = 5
    MaxClients = 1
    MaxBatch = 1
    Overlap = TRUE
    PollErrors = FALSE
    NoToken = NoToken
    NoPid = NoPid
INVARIANT ChildrenAccounted
