\* One paper, one background job, one editor of its summary.
SPECIFICATION Spec
CONSTANTS
    Pubs = {p1}
    Editors = {}
    Jobs = {j1}
    Abstracts = {a1}
    Choices = {"published"}
    Handled = {p1}
    Limit = 1
    MaxHistory = 1
    MaxEdits = 1
    MaxLate = 0
PROPERTIES
    EditedIsNeverOverwritten
CHECK_DEADLOCK FALSE
