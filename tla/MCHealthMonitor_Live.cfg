SPECIFICATION FairSpec
CONSTANTS
  FirstServers = 2
  MaxServers = 2
  Readings = {"low"}
  Thresholds = {"strict"}
  Ignores = {FALSE}
  MaxHistory = 1
  DiskFails = TRUE
  MaxPosted = 1
  MaxOps = 1
  MaxRestarts = 0
PROPERTY ForcedIsChecked
PROPERTY DueIsChecked
