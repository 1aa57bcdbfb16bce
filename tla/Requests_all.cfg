SPECIFICATION FairSpec
CONSTANT Request = {r1, r2}
INVARIANTS TypeOK ReplyFollowsEvent
PROPERTIES RequestsAnswerTruly ClientHears
CHECK_DEADLOCK FALSE
