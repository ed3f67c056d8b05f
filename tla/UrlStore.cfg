CONSTANTS
    p1 = p1
    p2 = p2
    t1 = t1
    t2 = t2
    Processes = {p1}
    Threads = {t1, t2}
    ProcessOf <- OneProcess
    Urls = {1, 2}
    Contents = {1, 2}
    Referrer <- Found12
    DBModes = {"multi", "single"}
    UseClones = TRUE
    HoldBadHrefs = TRUE
    Reindex = FALSE
    CacheLimit = 1
    Answers = {"gone", "down", "noStatus", "notModified", "later", "disallow"}
    FaultsMax = 1
    UpdatesMax = 3
    Nobody = Nobody
SPECIFICATION FairSpec
INVARIANTS TypeOK WordsFresh InfoMatchesWords
PROPERTIES LockReleased
CHECK_DEADLOCK FALSE
