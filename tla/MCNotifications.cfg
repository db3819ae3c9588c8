CONSTANTS
    Client = {c1, c2}
    Chunk = {{}, {"frame"}, {"menu"}, {"tool"}, {"interrupt"}}
    TailMax = 2
    Threshold = 1
    MaxOut = 2
    MaxTime = 3
    QueueMax = 2
    Cap = 2
    Window = 1
    Cooldown = 1
    MaxToasts = 1
    NoEvent = NoEvent
SPECIFICATION FairRouter
PROPERTIES CompletionIsHonest LimiterIsExact QueueDrains
CHECK_DEADLOCK FALSE
