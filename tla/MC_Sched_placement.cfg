CONSTANTS
    c1 = c1
    c2 = c2
    p1 = p1
    p2 = p2
    i1 = i1
    i2 = i2
    NoPcb = NoPcb
    CPUS = {c1, c2}
    Procs = {p1, p2}
    IdleOf <- MCIdleOf
    Home <- MCHome
    ExitCodes = {0}
    TimeSlice = 2
    MaxVruntime = 2
    MinJiffies <- MCMinJiffies
    MaxQueue = 2

SPECIFICATION Spec

INVARIANT ExclusivePlacement

CHECK_DEADLOCK FALSE
