SPECIFICATION Spec
CONSTANTS
    p1 = p1
    p2 = p2
    t = t
    m = m
    zero = zero
    Scopes <- ChartsOfProjects
    TaskIds = {t, m, zero}
    ReservedIds = {zero}
    DefaultTask = t
    NewStatuses <- OnlyClosed
    Calls = {c1, c2}
    None = None
    ServerCharts <- ChartsOfServer
    MaxMoves = 2
    MaxEdits = 1
INVARIANTS
    ChartsKeepTheirOwnTasks
CHECK_DEADLOCK FALSE
