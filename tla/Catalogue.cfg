\* Every script and an ingest on two records of one paper, with one upset.
SPECIFICATION Spec
CONSTANTS
    Names <- MCNames
    Extra <- MCExtra
    Initial <- MCInitial
    Aliases <- MCAliases
    Seed <- MCSeed
    Works <- MCWorks
    Length <- MCLength
    Chrome = {"page"}
    MaxYearGap = 3
    Picks <- MCPicks
    MaxRecords = 3
    MaxUpsets = 1
INVARIANTS
    TypeOK
    LinksAreRight
    MergesEndInARecord
PROPERTIES
    SeenLinksStand
    MergeLosesNothing
    MergeIsComplete
    ParkedStaysParked
CHECK_DEADLOCK FALSE
