SPECIFICATION FairSpec
CONSTANTS
    Users = {u1, u2}
    BadUsers = {b1}
    RoleOf <- AllUsers
    Cancels = {c1}
    IdSpan = 3
    BootHistories <- FreshBoot
    MaxIterations = 1
    WindDownIters = 1
    SilenceLimit = 1
    MaxCompactions = 1
    KeepRecent = 1
    MaxCalls = 1
INVARIANT OwnAnswer
INVARIANT PushesInOrder
PROPERTY TurnsTerminate
CHECK_DEADLOCK FALSE
