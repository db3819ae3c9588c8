CONSTANTS
    Backend = {b1, b2}
    Op = {o1, o2}
    Viewer = {v1}
    None = None
    MaxOut = 2
    MaxFiles = 4
    MaxBoots = 1
SYMMETRY Symmetry
SPECIFICATION Spec
INVARIANT OneTailer
