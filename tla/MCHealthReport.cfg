SPECIFICATION Spec
CONSTANTS
  Servers = {s1}
  Settings <- MCSettings
  Outputs <- MCOutputs
  Usual <- MCUsual
  Mounts = {"/", "/srv", "/snap/x"}
  Virtual = {"/snap/x"}
  Root = "/"
  Full = 5
  TimeWarn = 1
  TimeCrit = 2
  NetWarn = 1
  NetCrit = 2
  MaxUnits = 3
  MaxHistory = 2
  MaxClock = 5
  MaxChecks = 3
  MaxErrors = 2
  MaxChanges = 1
 
INVARIANT ButtonAgrees
INVARIANT ChangesAreReal
CHECK_DEADLOCK FALSE
