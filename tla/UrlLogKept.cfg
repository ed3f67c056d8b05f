CONSTANTS
    p = p
    q = q
    r = r
    e1 = e1
    e2 = e2
    c1 = c1
    c2 = c2
    Pages = {p, q}
    Records = {r}
    PageOf <- OnP
    Configs <- Site
    FirstRow = 2
    Editors = {e1, e2}
    Runs = {c1, c2}
    DryRuns = {}
    Transactional = TRUE
    MaxSaves = 2
    Events = {"fileError", "execError", "crash"}
SPECIFICATION FairSpec
INVARIANTS TypeOK ChangeKept TakenInv
PROPERTIES EveryChangeIndexed
