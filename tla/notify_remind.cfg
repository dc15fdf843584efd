SPECIFICATION Spec
CONSTANTS
  RuleKeys = {cpu}
  StatusKeys = {}
  GuardKeys = {budget}
  Channels = {smtp}
  HttpChannels = {}
  Syncs = {}
  QueueCap = 2
  Attempts = 1
  RemindEvery = 2
  Keep = 2
  EditKinds = {"mute", "rule"}
  NoJob = NoJob
  MaxTime = 4
  MaxEvents = 1
  MaxRows = 3
  MaxBoots = 1
  MaxEdits = 1
INVARIANTS RemindersSpaced
CHECK_DEADLOCK FALSE
