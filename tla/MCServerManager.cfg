CONSTANTS
    MaxAttempts = 1
    Window = 1
    Child = {p1, p2}
    Other = other
    Click = {click}
    Resists = {p1}
    MaxClicks = 1
    None = None
SPECIFICATION FairSpec
INVARIANTS StrangersAreSpared RestartsAreBounded QuitTakesTheServer
PROPERTIES QuitEnds DeathIsNoticed
CHECK_DEADLOCK FALSE
