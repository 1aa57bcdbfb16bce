SPECIFICATION Spec
CONSTANTS
    i1 = i1
    i2 = i2
    h1 = h1
    h2 = h2
    Session = {s1}
    NoSession = NoSession
    Identity <- TwoIdentities
    NoIdentity = NoIdentity
    Hash <- TwoHashes
    IdentityOf <- OneEach
    Request = {}
INVARIANT ListedIsAttached
CHECK_DEADLOCK FALSE
