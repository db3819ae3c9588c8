CONSTANTS
    Page = {p1}
    Handler = {h1, h2}
    AckedCap = 1
    MaxHooks = 2
    MaxLost = 1
SPECIFICATION FairSpec
INVARIANT OneYourTurn
PROPERTIES PollsTellTheTruth PagesSettle NoToastIsLost ReasonStands
CHECK_DEADLOCK FALSE
