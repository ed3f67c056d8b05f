CONSTANTS
    p1 = p1
    p2 = p2
    t1 = t1
    t2 = t2
    t3 = t3
    a = a
    b = b
    c = c
    Procs = {p1}
    Threads = {t1, t2, t3}
    ProcOf <- OneProc
    Urls = {a, b, c}
    StartUrls = {a}
    Links <- WebBack
    UrlNumber = 3
    Limited = FALSE
    CacheSize = 2
    SkipLock = TRUE
    HoldBadHrefs = TRUE
    Events = {"dbError", "docError", "timeUp", "expire"}
    NoUrl = NoUrl
    NoThread = NoThread
SPECIFICATION Spec
SYMMETRY ThreadSymmetry
INVARIANTS TypeOK LockInv LeaseInv WorkInv NothingLeftBehind
PROPERTY ImplementsQueue
