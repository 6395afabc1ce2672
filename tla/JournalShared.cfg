CONSTANTS
    p1 = p1
    p2 = p2
    p3 = p3
    earlier = earlier
    Proc <- Calls
    Earlier = earlier
    Initial <- AnyLeftover
    MaxFiles = 3
    MaxLines = 3
    MaxFaults = 2
    MaxMoves = 1
SYMMETRY CallsSymmetric
SPECIFICATION Spec
INVARIANT RollbackLeavesNothing
PROPERTY LogImplemented
CHECK_DEADLOCK FALSE
