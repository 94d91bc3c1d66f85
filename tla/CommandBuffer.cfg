SPECIFICATION HistorySpec
CONSTANTS
    COMPUTE = COMPUTE
    GEOMETRY = GEOMETRY
    FRAGMENT = FRAGMENT
    TRANSFER = TRANSFER
    Stage <- FourStages
    StageMasks = {}
    Exclusive <- GeometryAndCompute
    msgPipelineBubble = TRUE
    MaxWork <- Plenty
    primary = primary
    secondary = secondary
    pass = pass
    Primary <- OnePrimary
    Secondary <- OneSecondary
    RenderPass <- OnePass
    NoPass = NoPass
    ExternalIn <- WaitsForTransfer
    ExternalOut <- HoldsUpVertices
    BarrierMasks <- FullBarrier
    WorkStages <- Transfers
    MaxRecorded <- ShortSecondary
    MaxSubmits = 2
INVARIANTS
    ReplaysRecordingOnce
    PassesPaired
    FullBarrierDrains
PROPERTIES
    SubmitReturns
