SPECIFICATION DispatchSpec
CONSTANTS
    Threads = {t1, t2}
    Instances = {i1, i2}
    Devices = {d1, d2}
    Callbacks = {c1, c2}
    Wants = {c1}
    Reentrant = {}
    Families = {0}
    Null = Null
    Reused = {i1, d1}
    BusyAfterRace = FALSE
    Logging = {TRUE}
INVARIANTS
    RacesNeedCreateDevice
    DataOfOwnDevice
    TablesAreCurrent
    MessagesReachListeners
PROPERTIES
    LockIsReleased
CHECK_DEADLOCK FALSE
