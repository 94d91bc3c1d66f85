SPECIFICATION ResourcesSpec
CONSTANTS
    Swapchains = {s1, s2, s3}
    Images = {i1, i2, i3, i4}
    Pools = {p1, p2}
    CommandBuffers = {b1, b2}
    Pipelines = {l1, l2}
    Null = Null
    ImageCount = 2
    MemoryTypes = {0, 1}
    SampleCounts = {1, 4}
    MaxLive = 5
SYMMETRY Symmetry
CONSTRAINT FewObjects
INVARIANTS
    ObjectsMatchDriver
    
PROPERTIES
    AssertionsNeedFailedCall
