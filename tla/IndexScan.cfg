SPECIFICATION ScanSpec
CONSTANTS
    Memories = {m1}
    Buffers = {b1}
    Types = {0, 1, 2}
    IndexTypes = {1}
    HostVisible = {1, 2}
    BufferTypes = {0, 1, 2}
    Nowhere = Nowhere
    Width = 3
    ShortWidth = 2
    BucketBits = 2
    FragmentSize = 2
    cacheSize = 2
    CountBits = 3
    FloatLimit = 4
    utilizationThreshold <- ThreeQuarters
    cacheHitThreshold <- Half
    minIndexCount = 2
    Draws <- SmallDraws
    MaxIndices = 4
INVARIANTS
    MappedExactlyOnce
    IndexBuffersMappable
    SparseReportsRight
    ScanInBounds
    ShadedBetweenBounds
