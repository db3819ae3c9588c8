SPECIFICATION FairSpec
CONSTANTS
    None = None
    MaxHooks = 4
    MaxCopies = 1
    MaxBoots = 1
INVARIANTS
    OrderedDotIsRight
    RestHolds
PROPERTIES
    DotSettles
CHECK_DEADLOCK FALSE
