CONSTANTS
    p1 = p1
    p2 = p2
    t1 = t1
    t2 = t2
    t3 = t3
    a = a
    b = b
    c = c
    Procs = {p1, p2}
    Threads = {t1, t2}
    ProcOf <- TwoProcs
    Urls = {a, b}
    StartUrls = {a, b}
    Links <- Web2
    UrlNumber = 3
    Limited = TRUE
    CacheSize = 2
    SkipLock = FALSE
    HoldBadHrefs = TRUE
    Events = {"dbError", "crash", "periodElapses"}
    NoUrl = NoUrl
    NoThread = NoThread
SPECIFICATION Spec
INVARIANTS NoDoubleCrawl LeasesWithinLimit
PROPERTY ImplementsQueue
