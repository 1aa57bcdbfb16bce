SPECIFICATION Spec
CONSTANTS
    Session = {s1, s2, anon}
    Anon = anon
    NoSession = NoSession
    Conn = {c1}
    Request = {}
    Reaper = Reaper
    AuthEnabled = TRUE
    Inactivity = 1
    MaxLifetime = 2
PROPERTY ReapsOnlyExpired
CHECK_DEADLOCK FALSE
