\* Two editors deciding on one paper while every pipeline works on it.
SPECIFICATION Spec
CONSTANTS
    Pubs = {p1}
    Editors = {e1, e2}
    Jobs = {j1}
    Abstracts = {a1}
    Choices = {"published", "rejected"}
    Handled = {p1}
    Limit = 2
    MaxHistory = 2
    MaxEdits = 0
    MaxLate = 0
INVARIANTS
    TypeOK
    TrailIsExact
PROPERTIES
    TrailIsAppendOnly
    StatusIsDecidedByEditors
CHECK_DEADLOCK FALSE
