\* The same calls, a few at a time, under the fairness of the threads.
SPECIFICATION LiveSpec
CONSTANTS
    Waiters = {"w1", "w2"}
    Points = {"p1"}
    PointSeq <- StampThenFence
    Window = 8
    MaxTs = 16
    Scenes <- LiveScenes
    WaitChoices = {16}
    PointChoices = {16}
PROPERTIES EveryoneWoken Freed
CHECK_DEADLOCK FALSE
