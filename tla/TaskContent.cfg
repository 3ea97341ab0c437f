SPECIFICATION Spec
CONSTANTS
    t1 = t1
    c1 = c1
    c2 = c2
    Containers <- TaskRows
    ChartTasks = {t1, t2}
    DefaultTasks = {t1}
    Comments = {c1, c2}
    TaskOf <- TaskOfComment
    ParentComment <- ReplyTo
    Attachments = {a1}
    None = None
    RequestIds = {r1, r2}
    Limit = 1
SYMMETRY Symmetry
INVARIANTS
    TaskContentIsStored
    RemovedTasksLeaveNothing
PROPERTIES
    KeptTasksKeepTheirData
