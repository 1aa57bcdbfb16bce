SPECIFICATION FairSpec
CONSTANTS
    p1 = p1
    a1 = a1
    q1 = q1
    Conn = {c1}
    Subject <- AllSubjects
    Public <- OneAnnouncement
    Packet <- OnePacket
    Announcement <- OneAnnouncement
    PathRequest <- OnePathRequest
    Capacity = 1
    MaxCalls = 1
INVARIANTS TypeOK OpenReceiptIsBooked NothingStranded
PROPERTIES ClientsAreToldInOrder PacketsWindDown ReportsArrive CallsEnd BookIsCleared
CHECK_DEADLOCK FALSE
