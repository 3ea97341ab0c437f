CONSTANTS
  Operators = {alice}
  StartVersions = {6}
  NewVersions = {11}
  Fixture <- Rows
  LegacyFixture <- NoRows
  JournalKeys <- Paths
SPECIFICATION UpgradeSpec
PROPERTIES
  EditsOutliveTrials
