CONSTANTS
    Pids = {1, 2, 3}
    NoGroup = NoGroup

SPECIFICATION SpecAnyTarget

INVARIANT MemberOfOwnGroup

CHECK_DEADLOCK FALSE
