\* Two papers, one of them handled by an editor: jobs, the batch and late writes.
SPECIFICATION Spec
CONSTANTS
    Pubs = {p1, p2}
    Editors = {}
    Jobs = {j1}
    Abstracts = {a1}
    Choices = {"published"}
    Handled = {p1}
    Limit = 2
    MaxHistory = 1
    MaxEdits = 1
    MaxLate = 1
INVARIANTS
    LabelsAreHonest
PROPERTIES
    SeenEditsSurvive
    BatchReachesEveryRecord
CHECK_DEADLOCK FALSE
