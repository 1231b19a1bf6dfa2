\* One context; a submission looks at the throttle while the f2h thread ends it.
SPECIFICATION PartsSpec
CONSTANTS
    Rings = 1
    Work <- OneOne
    Cmds <- OneThree
    MaxUnack = 2
    MinUnack = 1
    Budget = 0
    PowerScenes <- Mishaps
    MaxOpen = 1
    MaxActive = 1
    Size = 12
    Messages <- Mixed
    Cookie = Cookie
    SwitchAccidents = {{}}
    Accidents = {"overtaken"}
INVARIANTS NothingStranded
CHECK_DEADLOCK FALSE
