SPECIFICATION FairSpec
CONSTANTS
    o1 = o1
    o2 = o2
    d1 = d1
    NoOpen = NoOpen
    Open <- OneCall
    Dest <- OneDest
    Target <- SharedTarget
PROPERTIES OpenEnds EstablishedIsReported
CHECK_DEADLOCK FALSE
