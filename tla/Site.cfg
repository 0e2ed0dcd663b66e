\* A visitor, an editor in the panel and other editors, on a small site.
SPECIFICATION Spec
CONSTANTS
    Library <- MCLibrary
    Mapped = {1, 2}
    Members <- MCMembers
    Theses <- MCTheses
    News <- MCNews
    Teams <- MCTeams
    Matched <- MCMatched
    Typed <- MCTyped
    Keys = {"a", "e"}
    Resolved = {"a", "e"}
    PerPage = 1
    Related = 1
    Recent = 2
    HitLimit = 1
    Searched = 2
    Neighbours = 2
    Wide = 2
    Closest = 1
    Focused = 1
    MaxEdits = 1
    MaxAsked = 2
INVARIANTS
    SiteTypeOK
    NothingHiddenIsShown
    LinksLead
    ListsAreWhole
    CreatesWhatWasPreviewed
PROPERTIES
    PanelsComeBack
