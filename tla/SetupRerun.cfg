\* The setup scripts once and then from the start again: no edits, no faults.
SPECIFICATION Spec
CONSTANTS
    Fold <- MCFold
    Seed <- MCSeed
    Dataset <- MCDataset
    Team <- MCTeam
    Pins <- MCPins
    Lists <- MCListsAsKept
    Doctors <- MCDoctors
    IncludeWeak = FALSE
    Spellings <- MCSpellings
    MaxMembers = 6
    MaxUpsets = 0
INVARIANTS
    RerunsSucceed
