CONSTANTS
    p1 = p1
    p2 = p2
    t1 = t1
    t2 = t2
    t3 = t3
    a = a
    b = b
    c = c
    Procs = {p1}
    Threads = {t1, t2}
    ProcOf <- OneProc
    Urls = {a, b}
    StartUrls = {a}
    Links <- WebOne
    UrlNumber = 3
    Limited = FALSE
    CacheSize = 2
    SkipLock = FALSE
    HoldBadHrefs = TRUE
    Events = {"dbError", "markError", "signal", "leaseElapses"}
    NoUrl = NoUrl
    NoThread = NoThread
SPECIFICATION FairSpec
PROPERTIES EveryProcessEnds SignalEndsProcess
