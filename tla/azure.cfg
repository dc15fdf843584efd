SPECIFICATION Spec
CONSTANTS
  Resources = {vm}
  Period = 2
  CatchUp = 0
  NoSchedule = NoSchedule
  MaxTime = 3
  MaxActions = 2
  MaxChanges = 2
INVARIANTS TypeOK OneCallAtATime SucceededWasDone FailuresAlternate HeldByItsGoroutine
PROPERTIES BoundaryDecidedOnce
CHECK_DEADLOCK FALSE
