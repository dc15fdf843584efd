SPECIFICATION Spec
CONSTANTS
  Names = {web}
  Deleters = {d1}
  Nameless = {"vm"}
  MaxRuns = 2
  MaxChanges = 1
INVARIANTS TypeOK OneBuilder NamedWhileItExists HeldByItsRun SucceededWasBuilt
PROPERTIES DeletesOnlyOurs
CHECK_DEADLOCK FALSE
