SPECIFICATION FairSpec
CONSTANTS
  NoVal = NoVal
  Halts = {"SUSPENDED", "STOPPED"}
  MaxRound = 3
  MaxDrops = 2
PROPERTIES FeedIsView ChangeArrives
CHECK_DEADLOCK FALSE
