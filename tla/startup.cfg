SPECIFICATION BootSpec
CONSTANTS
    Sources <- AllSources
    TextOf <- Write
    Symbol <- AnySymbol
    Tree <- SmallTree
    Address <- Addresses4
    Upper <- Spellings
    Numeral <- AllNumerals
    BadSymbol = "@"
    HostNames <- AllNames
    Paths <- AllPaths
    Methods = {"GET", "POST", "DELETE"}
    AnyHost = AnyHost
INVARIANTS TypeOK EachServed RightServer RightRoute RightFile LoadsWhatIsMeant
PROPERTIES SaneStarts
CHECK_DEADLOCK FALSE
