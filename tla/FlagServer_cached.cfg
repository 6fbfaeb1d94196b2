SPECIFICATION Spec
CONSTANTS
  RoundBuckets = 26
  PayloadBuckets = 5
  UIntRange = 2147483647
  Workers = {w1, w2}
  main = main
  NoVal = NoVal
  Submissions <- One
  Services = 1
  MinTeams = 1
  NopTeam = 1
  TestService = 65534
  TestRound = 32767
  RoundsValid = 1
  TeamCounts <- Stay
  Halts = {"STOPPED"}
  MaxRound = 1
  MaxLines = 2
  MaxCrashes = 1
  MaxExits = 0
INVARIANT OldIsStored
CHECK_DEADLOCK FALSE
