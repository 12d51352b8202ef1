SPECIFICATION Spec
CONSTANTS
    Ports = 1
    Pid = {p1, p2}
    MaxToken = 6
    MaxClients = 2
    MaxBatch = 1
    Overlap = TRUE
    PollErrors = TRUE
    NoToken = NoToken
    NoPid = NoPid
INVARIANTS TypeOK TokensDisjoint CgiEventsReachOwner ChildOwnedOnce
PROPERTIES TokensNeverReused ClosedIsFinal
SYMMETRY Symmetry
CONSTRAINT OneBusy
