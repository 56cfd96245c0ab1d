SPECIFICATION Spec
CONSTANTS
    Users = {u1, u2}
    BadUsers = {}
    RoleOf <- OneTool
    Cancels = {}
    IdSpan = 1
    BootHistories <- MixedBoot
    MaxIterations = 2
    WindDownIters = 1
    SilenceLimit = 1
    MaxCompactions = 1
    KeepRecent = 2
    MaxCalls = 2
INVARIANT ContextOK
CHECK_DEADLOCK FALSE
