SPECIFICATION Spec
CONSTANTS
    Name = {n1}
    NoName = NoName
    SesId = {s1, s2}
    NoSid = NoSid
    RingSize = 1
    Faulty = TRUE
    MaxTok = 3
    MaxBoots = 3
SYMMETRY Symmetry
CHECK_DEADLOCK FALSE
INVARIANTS
    OwnedAgentsHeard
    TokensAreOwn
PROPERTIES
    MintNeverSilences
    SavedTokensSurvive
