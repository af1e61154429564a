SPECIFICATION Spec
CONSTANTS
  Servers = {s1}
  Dirs = {home}
  WorkDirs = {}
  Home = home
  NoDir = no_dir
  NoServer = no_server
  Outcomes = {"ok", "failed", "cancelled"}
  MaxRuns = 3
  MaxSteps = 3
INVARIANT SerialRuns
INVARIANT BusyIffWork
INVARIANT StepMatchesBundle
INVARIANT BundleEntryTruthful
PROPERTY StopEndsBundle
PROPERTY ExecutesSerially
