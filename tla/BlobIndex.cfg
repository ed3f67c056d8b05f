CONSTANTS
    Indexers = {1}
    Urls = {1, 2}
    Contents = {1, 2, 3}
    Columns = 2
    Text <- Texts
    Converted = {1}
    First = 1
    Queries <- Including
    Faults = {"indexer", "convert", "rename"}
    FaultsMax = 1
    UpdatesMax = 2
SPECIFICATION FairSpec
INVARIANTS TypeOK OneRowCounts LiveSearchFindsCurrent GroupedFindsConverted
PROPERTIES IndexConverges
