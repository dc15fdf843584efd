SPECIFICATION FairSpec
CONSTANTS
  HostIds = {1}
  RuleIds = {1}
  Metrics = {"cpu"}
  Levels = {0, 1}
  Thresholds = {0}
  Durations = {2}
  DefaultRules <- MCDefaultRules
  Interval = 1
  Absent = Absent
  AnyHost = AnyHost
  MaxTime = 4
  MaxEvents = 2
  MaxEdits = 2
  MaxBoots = 1
  MaxStoreErrors = 1
INVARIANTS MachineMatchesJournal
PROPERTIES AlternatingJournal FiresOnlyAfterDuration AlertsEnd
CHECK_DEADLOCK FALSE
