SPECIFICATION Spec
CONSTANTS
    o1 = o1
    o2 = o2
    d1 = d1
    NoOpen = NoOpen
    Open <- TwoCalls
    Dest <- OneDest
    Target <- SharedTarget
INVARIANT OneLinkPerDestination
CHECK_DEADLOCK FALSE
