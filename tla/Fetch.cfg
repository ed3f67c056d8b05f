CONSTANTS
    t1 = t1
    t2 = t2
    l1 = l1
    l2 = l2
    Threads = {t1, t2}
    Hosts = {1, 2, 3}
    Numeric = {3}
    RobotsTxt <- Rules1
    UseRobots <- RobotsBut2
    RobotLocks = {l1}
    LockOf <- OneLock
    MaxNetErrors = 1
    CacheSize = 2
    DocsMax = 3
    ClockMax = 1
    Nobody = Nobody
SPECIFICATION FairSpec
INVARIANTS TypeOK RobotsOnce RobotsObeyed StopsAfterMax
PROPERTIES EveryDocEnds
CHECK_DEADLOCK FALSE
