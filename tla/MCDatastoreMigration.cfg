SPECIFICATION Spec
CONSTANTS
    MaxVersion = 3
    KeepLast = 1
    None = None
    Garbled = Garbled
    MaxBoots = 3
INVARIANTS
    EveryMoveIsAnnounced
    TrailTellsTheTruth
    LastMoveIsReversible
    MirrorFollowsTrail
PROPERTIES
    UpgradeIsAtomic
    StartsEnd
CHECK_DEADLOCK FALSE
