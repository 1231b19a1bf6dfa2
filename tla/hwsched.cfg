\* Two contexts, three scripts, up to two accidents of any kind.
SPECIFICATION FairSpec
CONSTANTS
    Ctx <- Two
    Length = 3
    Scenes <- AllScenes
    HwSize = 2
    Resets <- HardOrSoft
    Accidents = {"hang", "nopower", "register", "detach", "suspend", "watchdog"}
INVARIANTS RecordsAgree GmuHasTheList NothingForgotten
PROPERTIES AllEnds
CHECK_DEADLOCK FALSE
