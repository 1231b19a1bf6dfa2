\* A hang, a fault, refusals and preemption on two rings; and halts, slumber and a suspend on one.
SPECIFICATION Spec
CONSTANTS
    c1 = c1
    c2 = c2
    Contexts = {c1, c2}
    DqSize = 3
    InflightMax = 2
    Burst = 2
    Fenced = {}
    Scenes <- AllScenes
INVARIANTS RecordsAgree NoCommandLost NobodyForgotten IdleMeansDrained
PROPERTY HaltHolds
CHECK_DEADLOCK FALSE
