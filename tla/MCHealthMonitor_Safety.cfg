SPECIFICATION Spec
CONSTANTS
  FirstServers = 1
  MaxServers = 2
  Readings = {"errs", "offline"}
  Thresholds = {"lax"}
  Ignores = {FALSE}
  MaxHistory = 1
  DiskFails = FALSE
  MaxPosted = 1
  MaxOps = 2
  MaxRestarts = 1
INVARIANT ShownIsUnderWay
INVARIANT StatusOnRecord
