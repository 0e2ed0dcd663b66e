\* Two papers on pages of one, one operator; the index only (MinRows keeps the map away).
SPECIFICATION Spec
CONSTANTS
    Pubs = {1, 2}
    Texts = {"old", "new"}
    Runs = {r1}
    PageSize = 1
    MinRows = 3
    MaxSaves = 2
    MaxCrashes = 1
INVARIANTS
    TypeOK
PROPERTIES
    UndisturbedRunIsExact
    LivePrunedOnlyWhenListMoved
    IndexSettles
CHECK_DEADLOCK FALSE
