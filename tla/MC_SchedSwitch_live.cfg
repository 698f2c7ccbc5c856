CONSTANTS
    c1 = c1
    c2 = c2
    p1 = p1
    p2 = p2
    p3 = p3
    i1 = i1
    i2 = i2
    NoPcb = NoPcb
    NoCpu = NoCpu
    CPUS = {c1}
    Procs = {p1, p2, p3}
    IdleOf <- MCIdleOf1
    Home <- MCHome3
    ExitCodes = {0}
    TimeSlice = 2
    MaxVruntime = 3
    MinJiffies <- MCMinJiffies
    MaxQueue = 3

SPECIFICATION SwFairSpec


PROPERTY RunnableEventuallyRuns

CHECK_DEADLOCK FALSE
