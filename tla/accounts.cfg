SPECIFICATION Spec
CONSTANTS
  Requests = {r1, r2}
  Emails = {a, b, c}
  MaxFailures = 2
  Lockout = 2
  SessionTTL = 2
  LoginTTL = 0
  None = None
  MaxUsers = 3
  MaxSessions = 2
  MaxStarts = 1
  MaxTime = 2
  MaxRestarts = 1
  MaxWork = 7
SYMMETRY Symmetry
INVARIANTS TypeOK LocalAdminStays SessionsAreTheirs GuessesBounded
CHECK_DEADLOCK FALSE
