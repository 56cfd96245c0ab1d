SPECIFICATION Spec
CONSTANTS
    Users = {u1}
    BadUsers = {}
    RoleOf <- AllUsers
    Cancels = {}
    IdSpan = 3
    BootHistories <- ResumedBoot
    MaxIterations = 1
    WindDownIters = 1
    SilenceLimit = 1
    MaxCompactions = 1
    KeepRecent = 1
    MaxCalls = 0
PROPERTY EveryTurnIsEnded
CHECK_DEADLOCK FALSE
