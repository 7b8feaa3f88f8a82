SPECIFICATION Spec
INVARIANT CanceledIsRejected
CONSTANTS
    r1 = r1
    r2 = r2
    r3 = r3
    Resource = {r1}
CHECK_DEADLOCK FALSE
