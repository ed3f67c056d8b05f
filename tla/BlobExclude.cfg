CONSTANTS
    Indexers = {1}
    Urls = {1, 2}
    Contents = {1, 2}
    Columns = 2
    Text <- Texts
    Converted = {1, 2}
    First = 1
    Queries <- Excluding
    Faults = {}
    FaultsMax = 0
    UpdatesMax = 2
SPECIFICATION Spec
INVARIANTS LiveSearchFindsCurrent
CHECK_DEADLOCK FALSE
