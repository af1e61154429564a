SPECIFICATION FairSpec
CONSTANTS
  Servers = {s1}
  NoServer = no_server
  Plays <- MCPlays
  Sizes <- MCSizes
  FirstSize <- MCFirst
  EchoOf <- MCEcho
  RunTexts <- MCRunTexts
  AutoConnect = TRUE
  MaxScrollback = 3
  MaxSeq = 3
  MaxOsc = 2
  MaxActs = 1
  MaxTexts = 2
 
INVARIANT InputInOrder
INVARIANT ScreenIsOfItsBytes
PROPERTY StopReturns
 
CHECK_DEADLOCK FALSE
