SPECIFICATION Spec
CONSTANTS
  RuleKeys = {cpu}
  StatusKeys = {offline}
  GuardKeys = {}
  Channels = {smtp}
  HttpChannels = {}
  Syncs = {}
  QueueCap = 2
  Attempts = 1
  RemindEvery = 0
  Keep = 9
  EditKinds = {"quiet"}
  NoJob = NoJob
  MaxTime = 0
  MaxEvents = 4
  MaxRows = 4
  MaxBoots = 1
  MaxEdits = 2
INVARIANTS OfflineInOrder
PROPERTIES RecoveriesDroppedLast
CHECK_DEADLOCK FALSE
