SPECIFICATION FairSpec
CONSTANTS
  Servers = {s1, s2}
  Dirs = {home, d1}
  WorkDirs = {d1}
  Home = home
  NoDir = no_dir
  NoServer = no_server
  Outcomes = {"ok"}
  MaxRuns = 2
  MaxSteps = 2
PROPERTY QueuedRunSettles
PROPERTY BundleEnds
PROPERTY StopEndsRun
PROPERTY CwdCarried
