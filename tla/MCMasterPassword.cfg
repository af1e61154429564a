SPECIFICATION Spec
CONSTANTS
  Passwords = {p, q}
  Servers = {a, b}
  Secrets = {x}
  None = none
  MaxAttempts = 2
  LockTime = 4
  Interval = 3
  Keep = 2
  MaxClock = 9
  MaxSalts = 3
  MaxEdits = 2
  MaxFailures = 1
  MaxCuts = 1
SYMMETRY Symmetry
INVARIANT SecretsReadable
INVARIANT GuessesBounded
INVARIANT BackupSurvives
CHECK_DEADLOCK FALSE
