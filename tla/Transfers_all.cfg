SPECIFICATION FairSpec
CONSTANTS
    Transfer = {t1}
    DefaultAccept = TRUE
INVARIANTS TypeOK UploadsAreRemoved AnnouncedIsDownloadable
    PolicyIsObeyed
PROPERTIES TransfersKeepBooks TransfersWindDown ConclusionIsReported PollerStops
CHECK_DEADLOCK FALSE
