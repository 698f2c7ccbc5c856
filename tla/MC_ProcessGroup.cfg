CONSTANTS
    Pids = {1, 2, 3}
    NoGroup = NoGroup

SPECIFICATION Spec

INVARIANT TypeOK
INVARIANT MembershipExclusive
INVARIANT MemberOfOwnGroup
INVARIANT NoUnwrapPanic

CHECK_DEADLOCK FALSE
