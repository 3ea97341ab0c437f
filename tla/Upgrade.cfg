CONSTANTS
  Operators = {alice}
  StartVersions = {1, 6}
  NewVersions = {11}
  Fixture <- Rows
  LegacyFixture <- LegacyRows
  JournalKeys <- Paths
SPECIFICATION UpgradeSpec
INVARIANTS
  SnapshotsAreReached
  RowsSurvive
  RepairedMentionsNameTheirContainer
  JournalsReachTheirFiles
  PreparedDatabasesKnowTheirCodes
PROPERTIES
  AttemptsMoveOneVersion
