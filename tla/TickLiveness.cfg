SPECIFICATION FairSpec
CONSTANTS
    MAX_UNITS = 2
    Procs = {p1, p2}
    NoProc = NoProc
    ScenarioUnits = 2
    TickGuard = 2
    Faults = {}
INVARIANT
    NeverStuck
PROPERTIES
    TickCompletes
    StopLeadsToExit
