SPECIFICATION FairSpec
CONSTANTS
    Consoles = {c1, c2}
    Viewers = {v1}
    MaxSpeed = 1
    InitialSpeed = 1
    ReqMax = 2
    RepMax = 2
    Commands <- MCCommands
    MaxIds = 2
    MaxMaps = 1
    Faults = {"lost", "thread"}
INVARIANTS RepliesMatch FrozenWithinOneTick
PROPERTIES Answered StopEndsWaits ImplementsControl
CHECK_DEADLOCK FALSE
