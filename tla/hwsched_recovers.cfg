\* A watchdog interrupt on hardware without a soft reset.
SPECIFICATION FairSpec
CONSTANTS
    Ctx <- Two
    Length = 3
    Scenes <- OneEach
    HwSize = 2
    Resets <- Unreset
    Accidents = {"watchdog"}
PROPERTIES GpuRecovers
CHECK_DEADLOCK FALSE
