SPECIFICATION FairSpec
CONSTANTS
  RoundBuckets = 26
  PayloadBuckets = 5
  UIntRange = 2147483647
  Workers = {w1, w2}
  main = main
  NoVal = NoVal
  Submissions <- Pair
  Services = 1
  MinTeams = 1
  NopTeam = 1
  TestService = 65534
  TestRound = 32767
  RoundsValid = 1
  TeamCounts <- Grow
  Halts = {"STOPPED"}
  MaxRound = 1
  MaxLines = 2
  MaxCrashes = 1
  MaxExits = 1
INVARIANTS AcknowledgedOnce SlotInArray
CHECK_DEADLOCK FALSE
PROPERTY ServerRecovers
