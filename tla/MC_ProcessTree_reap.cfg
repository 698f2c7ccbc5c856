CONSTANTS
    MaxPid = 5
    MaxClones = 2

SPECIFICATION SpecReap


INVARIANT NoPanic

CHECK_DEADLOCK FALSE
