SPECIFICATION Spec
CONSTANTS
    Part = {"user:teamProjectManager", "project:teamProjectManager", "project:projectProjectManager", "team:teamProjectManager", "organization:orgTeamManager", "team:orgTeamManager"}
    Seeds <- SeedsOfPart
    SeededLinks <- LinksOfPart
    SeededIssues <- OneIssue
    Other = "other"
    MaxRuns = 3
    MaxChanges = 2
INVARIANTS
    UsersRowsStay
PROPERTIES
    EnsuringCompletes
    EnsuringIsIdempotent
    PurgesEmpty
CHECK_DEADLOCK FALSE
