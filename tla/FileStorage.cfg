SPECIFICATION FairSpec
CONSTANTS
  Request = {1, 2}
  Alias = {"apple", "pingguo", "mine", "yours"}
  Locale = {"en", "zh"}
  Directory = {"root", "sub"}
  RandomName <- MCRandomName
  Body <- MCBody
  Root = "root"
  Default <- MCDefault
  MaxCrashes = 1
  MaxRemovals = 1
  DbMayFail = TRUE
  Unnamed = Unnamed
  Empty = Empty
  Upload = {1, 2}
  Name = {"a", "a (1)"}
  Path <- MCPath
  MaxIndex = 3
  Numbered <- MCNumbered
  Before <- MCBefore
  QueueCap = 1
  MaxOperations = 4
  DiskMayFail = TRUE
  Nothing = Nothing
  Other = Other
INVARIANTS
  SettingsInEffect
  HistoryIsOnDisk
  PartFilesOwned
PROPERTIES
  NeverOverwritten
  DeliveredIsStored
CHECK_DEADLOCK FALSE
