\* One hang and a fence, under fairness.
SPECIFICATION FairSpec
CONSTANTS
    c1 = c1
    c2 = c2
    Contexts = {c1, c2}
    DqSize = 3
    InflightMax = 2
    Burst = 2
    Fenced <- FirstFenced
    Scenes <- OneHang
PROPERTIES WorkEnds
CHECK_DEADLOCK FALSE
