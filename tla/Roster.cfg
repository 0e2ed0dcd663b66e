\* Any script, any number of times, with an edit and a failure at any moment.
SPECIFICATION Spec
CONSTANTS
    Fold <- MCFold
    Seed <- MCSeed
    Dataset <- MCDataset
    Team <- MCTeam
    Pins <- MCPins
    Lists <- MCLists
    Doctors <- MCDoctors
    IncludeWeak = FALSE
    Spellings <- MCSpellings
    MaxMembers = 6
    MaxUpsets = 1
INVARIANTS
    TypeOK
    RightFace
    UploadsAreUsed
PROPERTIES
    RerunChangesNothing
    HeldValuesStand
