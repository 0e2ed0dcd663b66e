\* Two operators start pipelines whenever they like: the map.
SPECIFICATION Spec
CONSTANTS
    Pubs = {1, 2}
    Texts = {"old"}
    Runs = {r1, r2}
    PageSize = 1
    MinRows = 1
    MaxSaves = 1
    MaxCrashes = 1
INVARIANTS
    MapIsOnePicture
CHECK_DEADLOCK FALSE
