\* Two entries of two pages, and faults of the CPU while they are pinned.
SPECIFICATION Spec
CONSTANTS
    Entries = {1, 2}
    PageCount = 2
    PageLimit = 4
    MaxScan = 4
    Submitters = {"s"}
    Binders = {"b"}
    Scenes = {{"fault"}}
PROPERTIES FilledOnce
CHECK_DEADLOCK FALSE
