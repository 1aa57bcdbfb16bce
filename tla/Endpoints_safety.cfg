SPECIFICATION Spec
CONSTANTS
    i1 = i1
    i2 = i2
    h1 = h1
    h2 = h2
    Session = {s1, s2}
    NoSession = NoSession
    Identity <- TwoIdentities
    NoIdentity = NoIdentity
    Hash <- TwoHashes
    IdentityOf <- OneEach
    Request = {r1}
SYMMETRY Symmetry
INVARIANTS TypeOK OwnersAreRegistered OnlyListenersHear
PROPERTIES RemovalsAndEndsFree EndpointsWindDown
CHECK_DEADLOCK FALSE
