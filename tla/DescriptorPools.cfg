SPECIFICATION HistorySpec
CONSTANTS
    Pool = {p1, p2}
    Layout = {l1}
    Set = {d1, d2, d3}
    MaxUuid = 2
INVARIANTS
    EntriesForLiveSets
    FreedCountIsShortfall
    WalkFreesAll
PROPERTIES
    WalkEnds
