\* Waiters, a sync object, a detach and an invalidation on a register that wraps.
SPECIFICATION Spec
CONSTANTS
    Waiters = {"w1", "w2"}
    Points = {"p1"}
    PointSeq <- StampThenFence
    Window = 8
    MaxTs = 16
    Scenes <- SafeScenes
    WaitChoices = {16}
    PointChoices = {16}
INVARIANTS HoldersRight NothingLeftBehind
PROPERTIES PopsWhenOver PromiseKept
CHECK_DEADLOCK FALSE
