SPECIFICATION HistorySpec
CONSTANTS
    MAX_UNITS = 2
    Procs = {p1, p2}
    NoProc = NoProc
    ScenarioUnits = 2
    TickGuard = 2
    Faults = {}
PROPERTY
    AllUnitsAct
