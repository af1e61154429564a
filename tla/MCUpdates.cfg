SPECIFICATION Spec
CONSTANTS
  MaxVersion = 2
  MaxUses = 2
  MaxChecks = 3
  MaxLaunches = 2
  MaxSetups = 1
PROPERTY InterruptsWithNotice
 
CHECK_DEADLOCK FALSE
