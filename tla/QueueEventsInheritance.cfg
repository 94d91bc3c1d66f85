SPECIFICATION InheritanceSpec
CONSTANTS
    GEOMETRY = GEOMETRY
    FRAGMENT = FRAGMENT
    TRANSFER = TRANSFER
    e1 = e1
    Stage <- ThreeStages
    Event = {e1}
    StageMasks <- AnyStages
    Exclusive = {}
    msgPipelineBubble = TRUE
    MaxWork <- OneEach
INVARIANTS
    EventsInheritDependencies
