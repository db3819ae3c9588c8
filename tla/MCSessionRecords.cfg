SPECIFICATION Spec
CONSTANTS
    Name = {n1, n2}
    Request = {q1, q2}
    None = None
    Depth = 4
    MaxConv = 2
    MaxNow = 2
    MaxEvents = 3
SYMMETRY Symmetry
INVARIANTS
    NoTwinRows
    HeadIsNotLeftBehind
PROPERTIES
    RowsKeepTheirPast
CHECK_DEADLOCK FALSE
