CONSTANTS
    MaxPid = 5
    MaxClones = 2

SPECIFICATION Spec

INVARIANT TypeOK
 
INVARIANT ChildrenPartition

CHECK_DEADLOCK FALSE
