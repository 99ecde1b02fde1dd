SPECIFICATION Spec
CONSTANTS
    MAX_UNITS = 2
    Procs = {p1, p2, p3}
    NoProc = NoProc
    ScenarioUnits = 3
    TickGuard = 2
    Faults = {"blocked", "fork", "boot", "window"}
SYMMETRY ProcSymmetry
INVARIANTS
    MutualExclusion
    PermitsConserved
PROPERTIES
    ImplementsGate
CHECK_DEADLOCK FALSE
