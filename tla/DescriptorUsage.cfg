SPECIFICATION HistorySpec
CONSTANTS
    reader = reader
    whole = whole
    NoSet = NoSet
    arrayLayers = 2
    mipLevels = 1
    swapchainImage = FALSE
    Sets <- Reader
    Views <- Whole
    NoView = NoView
    ViewRange <- RangeOfViews
    Bindings <- OneBinding
    bindingType <- Sampled
    arraySize <- TwoDescriptors
    formatUncompressed = TRUE
    usageRenderTarget = FALSE
    slots = 1
    LayoutSizes <- SmallerGraphicsLayout
    Attachments <- LastLayerOrNone
    CopyRanges <- CopyLayer
    ClearRanges <- ClearLayers
    MaxSignals = 4
INVARIANTS
    RedundantStoresReported
    WarningsAreTrue
    BoundSetsSignalled
    RenderTargetsNotReported
