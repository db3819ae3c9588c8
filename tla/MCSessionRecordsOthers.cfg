SPECIFICATION Spec
CONSTANTS
    Name = {n1}
    Request = {q1}
    None = None
    Depth = 4
    MaxConv = 3
    MaxNow = 2
    MaxEvents = 1
INVARIANTS
    OthersDoNotMoveTheHead
CHECK_DEADLOCK FALSE
