SPECIFICATION Spec
CONSTANTS
  RuleKeys = {cpu}
  StatusKeys = {}
  GuardKeys = {}
  Channels = {smtp, webhook}
  HttpChannels = {webhook}
  Syncs = {}
  QueueCap = 2
  Attempts = 2
  RemindEvery = 0
  Keep = 9
  EditKinds = {"route", "quiet", "enable", "host"}
  NoJob = NoJob
  MaxTime = 0
  MaxEvents = 2
  MaxRows = 4
  MaxBoots = 1
  MaxEdits = 1
INVARIANTS TypeOK PendingCarriedOnce SentWasHeard ListenersHearTheEnd
CHECK_DEADLOCK FALSE
