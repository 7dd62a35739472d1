SPECIFICATION FairSpec
CONSTANTS
    Ids = {c1}
    MaxLogins = 2
    MaxFaults = 1
    NoFile = NoFile
    NoRefresh = NoRefresh
INVARIANTS LoginKept SettingKept RotatedKept Watched
PROPERTIES UnauthorizedStays DueTried
CHECK_DEADLOCK FALSE
