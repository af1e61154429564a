SPECIFICATION Spec
CONSTANTS
  Dirs = {home, sub}
  Parent <- MCParent
  Home = home
  StartPath = sub
  Names = {f, g}
  RemoteFiles <- MCRemoteFiles
  LocalFiles = {f}
  Chunks = 2
  Addresses = 2
  NoFile = no_file
  Folder = folder
  Nowhere = nowhere
  MaxTransfers = 2
  MaxMoves = 2
  MaxFaults = 2
INVARIANT NothingBehindTheWindow
PROPERTY TransfersAreTruthful
PROPERTY ConnectionReleased
CHECK_DEADLOCK FALSE
