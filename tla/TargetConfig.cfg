CONSTANTS
    tA = tA
    tB = tB
    p1 = p1
    p2 = p2
    None = None
    Targets <- MCTargets
    Props <- MCProps
    Required <- MCRequired
    MaxSelects = 3
SPECIFICATION Spec
CHECK_DEADLOCK FALSE
INVARIANT TypeOK
