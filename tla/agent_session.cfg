SPECIFICATION FairSpec
CONSTANTS
    MaxIn = 3
    MaxOut = 4
    PipeCap = 1
    StreamBuffer = 2
    Subscribers = {s1}
    Streamed <- AllButTheSecond
INVARIANTS BridgeOK GapOnlyByLag WorkspacePushedAfterChild
PROPERTY SupervisorEnds
