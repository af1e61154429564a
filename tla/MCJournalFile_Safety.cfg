SPECIFICATION FairSpec
CONSTANTS
  TrimOutcomes = {TRUE, FALSE}
  MaxEntries = 1
  TrimSlack = 0
  LoadLimit = 2
  MaxAppends = 3
  MaxOpens = 1
  MaxPosted = 1
  MaxCrashes = 1
INVARIANT NewestLast
 
PROPERTY StatsCatchUp
CHECK_DEADLOCK FALSE
