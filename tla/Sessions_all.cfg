SPECIFICATION FairSpec
CONSTANTS
    Session = {s1, s2, anon}
    Anon = anon
    NoSession = NoSession
    Conn = {c1}
    Request = {r1}
    Reaper = Reaper
    AuthEnabled = TRUE
    Inactivity = 0
    MaxLifetime = 0
INVARIANTS TypeOK NoOrphanConnection
PROPERTIES SessionsWindDown LifetimeEnforced EndedSessionDrains ClosedIsLetGo
CHECK_DEADLOCK FALSE
