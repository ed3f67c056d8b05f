CONSTANTS
    Urls = {1, 2, 3, 4}
    StartHrefs <- StartWith2
    LinkLists <- OneOrTwo
    Docs = {2}
    Sites = {"A", "B"}
    SiteOf <- TwoSites
    Threads = 1
    CollectLinks = TRUE
    MaxDocPerSite = 1
    RESORT_HREFS = 1
    MAXHSIZE = 2
    Events = {"dbError", "linkError", "deleteRow", "restart"}
    NoUrl = 0
    NoSite = "none"
SPECIFICATION Spec
INVARIANTS TypeOK ListInv BisectInv
