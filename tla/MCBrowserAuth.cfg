CONSTANTS
    Jti = {j1, j2, j3}
    NoJti = NoJti
    Req = {r1, r2}
    NoReq = NoReq
    Tab = {t1, t2}
    Ttls <- OneTtl
    Grace = 1
    PurgeGrace = 1
    Zone <- West
    HandlerDelay = 0
    RoundTrip = 0
    MaxNow = 2
    Faulty = FALSE
SYMMETRY Symmetry
SPECIFICATION BrowserSpec
INVARIANTS StoredTokenIsAlive LineageNeverForks BurnReachesHeirs RevocationIsFinal DeliveredIsDurable
PROPERTIES TabsNeverBurn BurnOnlyOnReuse
