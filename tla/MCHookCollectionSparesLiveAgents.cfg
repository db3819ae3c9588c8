SPECIFICATION Spec
CONSTANTS
    Name = {n1, n2}
    NoName = NoName
    SesId = {s1, s2}
    NoSid = NoSid
    RingSize = 1
    Faulty = FALSE
    MaxTok = 2
    MaxBoots = 1
SYMMETRY Symmetry
CHECK_DEADLOCK FALSE
PROPERTY CollectionSparesLiveAgents
