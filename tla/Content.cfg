\* Every script on the seed, with edits, failures and deaths at any moment.
SPECIFICATION Spec
CONSTANTS
    Members <- MCMembers
    Aliases <- MCAliases
    Theses <- MCTheses
    Grants <- MCGrants
    Meetings <- MCMeetings
    Texts <- MCTexts
    Wanted <- MCWanted
    Fixtures <- MCFixtures
    Seed <- MCSeed
    NewTitles <- MCNewTitles
    MaxDocs = 12
    MaxUpsets = 1
INVARIANTS
    ContentTypeOK
    PeopleAreRight
PROPERTIES
    EditorsWorkStands
    DeletionsAreSafe
    ImportIsComplete
CHECK_DEADLOCK FALSE
