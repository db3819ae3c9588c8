CONSTANTS
    Backend = {b1, b2}
    Op = {o1}
    Viewer = {v1}
    None = None
    MaxOut = 2
    MaxFiles = 4
    MaxBoots = 1
SPECIFICATION FairSpec
INVARIANTS StreamIsConnected OneTailer ViewersInStep
PROPERTY OutputArrives
