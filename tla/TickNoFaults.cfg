SPECIFICATION HistorySpec
CONSTANTS
    MAX_UNITS = 2
    Procs = {p1, p2, p3}
    NoProc = NoProc
    ScenarioUnits = 3
    TickGuard = 2
    Faults = {}
SYMMETRY ProcSymmetry
INVARIANT
    CountedUnitsRun
PROPERTY
    AtMostOneAction
