\* Preemption of two rings, one accident each time; fences of a context, one accident of any kind;
\* two files and two votes; and a queue of 12 dwords.
SPECIFICATION FairParts
CONSTANTS
    Rings = 2
    Work <- OneOne
    Cmds <- OneThree
    MaxUnack = 2
    MinUnack = 1
    Budget = 1
    PowerScenes <- Mishaps
    MaxOpen = 2
    MaxActive = 2
    Size = 12
    Messages <- Mixed
    Cookie = Cookie
    SwitchAccidents <- OneAtATime
    Accidents <- Failures
INVARIANTS SwitchesAgree ThrottleEnds NothingStranded SentInOrder PowerKept
PROPERTIES ReadsAsWritten EveryoneGetsOn
CHECK_DEADLOCK FALSE
