SPECIFICATION HistorySpec
CONSTANTS
  Pass <- Passes
  Framebuffer = {f1, f2}
  GraphicsPipeline <- Pipelines
  Counts <- DrawCounts
  Width = 2
  depthPrePassMinVertices = 1
  depthPrePassMinIndices = 1
  depthPrePassNumDrawCalls = 1
  smallIndexedDrawcallIndices = 2
  maxSmallIndexedDrawcalls = 2
  indexBufferScanMinIndexCount = 3
  MaxCommands = 8
  NoPass = NoPass
  NoFramebuffer = NoFramebuffer
  ComputePipeline = ComputePipeline
  NoPipeline = NoPipeline
INVARIANTS PrePassReportsAreTrue ClearsBeforeDrawsReported SmallDrawsReportedOnce
PROPERTY SubpassReportsAreTrue
