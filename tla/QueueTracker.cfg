SPECIFICATION HistorySpec
CONSTANTS
    COMPUTE = COMPUTE
    GEOMETRY = GEOMETRY
    FRAGMENT = FRAGMENT
    TRANSFER = TRANSFER
    Stage <- ExclusiveStages
    StageOrder <- InOrder
    StageMasks <- NoneOneOrAll
    Exclusive <- GeometryAndCompute
    msgPipelineBubble = TRUE
    MaxWork <- TwoFragment
INVARIANTS
    TypeOK
    LatchedInThePast
    LatchSeparates
    WaitsAreTransitive
    LoopsAgree
PROPERTIES
    ImplementsTimeline
