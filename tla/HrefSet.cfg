CONSTANTS
    Urls = {1, 2, 3}
    StartHrefs <- StartWith2
    LinkLists <- Single
    Docs = {1, 2}
    Sites = {"A", "B"}
    SiteOf <- OneSite
    Threads = 1
    CollectLinks = TRUE
    MaxDocPerSite = 0
    RESORT_HREFS = 1
    MAXHSIZE = 2
    Events = {}
    NoUrl = 0
    NoSite = "none"
SPECIFICATION FairSpec
INVARIANTS SavedHaveRows LinksKept
PROPERTIES ImplementsLinkSet LockReleased
