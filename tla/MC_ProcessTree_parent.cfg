CONSTANTS
    MaxPid = 5
    MaxClones = 2

SPECIFICATION Spec

INVARIANT ParentLinkAccurate

CHECK_DEADLOCK FALSE
