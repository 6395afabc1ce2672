SPECIFICATION Spec
CONSTANTS
    w1 = w1
    w2 = w2
    w3 = w3
    l1 = l1
    l2 = l2
    Writer = {w1, w2, w3}
    Legacy = {l1, l2}
    PidOf <- RecycledPids
    NoFile = nofile
    NoOne = noone
INVARIANTS
    MutualExclusion
PROPERTIES
    DeadWritersLeaveNothing
CHECK_DEADLOCK FALSE
