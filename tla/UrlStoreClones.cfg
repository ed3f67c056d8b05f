CONSTANTS
    p1 = p1
    p2 = p2
    t1 = t1
    t2 = t2
    Processes = {p1}
    Threads = {t1, t2}
    ProcessOf <- OneProcess
    Urls = {1, 2}
    Contents = {1, 2}
    Referrer <- Found12
    DBModes = {"multi"}
    UseClones = TRUE
    HoldBadHrefs = FALSE
    Reindex = FALSE
    CacheLimit = 1
    Answers = {}
    FaultsMax = 0
    UpdatesMax = 4
    Nobody = Nobody
SPECIFICATION Spec
INVARIANTS OneOfGroupIndexed
CHECK_DEADLOCK FALSE
