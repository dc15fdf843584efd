SPECIFICATION FairSpec
CONSTANTS
  RuleKeys = {cpu}
  StatusKeys = {}
  GuardKeys = {budget}
  Channels = {smtp}
  HttpChannels = {}
  Syncs = {azure}
  QueueCap = 1
  Attempts = 2
  RemindEvery = 0
  Keep = 9
  EditKinds = {"quiet"}
  NoJob = NoJob
  MaxTime = 0
  MaxEvents = 2
  MaxRows = 2
  MaxBoots = 0
  MaxEdits = 2
PROPERTIES PendingSettles HeldIsReleased
CHECK_DEADLOCK FALSE
