SPECIFICATION Spec
CONSTANTS
  MinutesPerHour = 2
  HoursPerDay = 6
  DaysPerWeek = 7
  Lookback = 3
  CatchUpWindow = 6
  Schedules <- MCSchedules
  Zones <- MCZones
  From = 48
  Horizon = 84
  MaxSleep = 10
  None = None
INVARIANTS OffIsMeant
PROPERTIES ActsOnItsTurns
CHECK_DEADLOCK FALSE
