SPECIFICATION Spec
CONSTANTS
  RuleKeys = {cpu}
  StatusKeys = {}
  GuardKeys = {}
  Channels = {webhook}
  HttpChannels = {webhook}
  Syncs = {}
  QueueCap = 1
  Attempts = 2
  RemindEvery = 0
  Keep = 9
  EditKinds = {}
  NoJob = NoJob
  MaxTime = 0
  MaxEvents = 1
  MaxRows = 1
  MaxBoots = 1
  MaxEdits = 0
PROPERTIES ShutdownKeepsPending
CHECK_DEADLOCK FALSE
