SPECIFICATION ExecSpec
CONSTANTS
    FRAGMENT = FRAGMENT
    TRANSFER = TRANSFER
    e1 = e1
    Stage = {FRAGMENT, TRANSFER}
    Event = {e1}
    StageMasks <- OneStage
    Exclusive = {}
    msgPipelineBubble = TRUE
    MaxWork <- TwoFragment
INVARIANTS
    NoDirectWaitLost
    UnpushedWaitsNeedFold
    BubbleLeavesStageIdle
PROPERTIES
    WorkCompletes
