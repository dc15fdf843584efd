SPECIFICATION Spec
CONSTANTS
  Hosts = {1,2}
  Size <- MCSize
  Keeps <- MCKeeps
  Hour = 1
  MaxSilence = 1
  MaxLate = 0
  MaxDown = 1
  None = None
  Fractional = {2}
  Budget <- MCBudget
  MaxRaces = 1
  MaxTime = 8
  MaxFaults = 1
INVARIANTS WindowsAreDisjoint
PROPERTIES RowsNeverShrink PurgedIsRolledUp
CHECK_DEADLOCK FALSE
