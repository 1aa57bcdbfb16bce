SPECIFICATION Spec
CONSTANTS
    Transfer = {t1}
    DefaultAccept = TRUE
PROPERTY DeletedStaysDeleted
CHECK_DEADLOCK FALSE
