CONSTANTS
    c1 = c1
    c2 = c2
    NoThread = NoThread
    Controllers <- MCControllers
SPECIFICATION FairControlSpec
INVARIANTS RunningUndisturbed
PROPERTIES KillIsFinal PauseTakesEffect
CHECK_DEADLOCK FALSE
