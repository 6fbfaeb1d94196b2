SPECIFICATION RFairSpec
CONSTANTS
  Api = {a1}
  Rot = rot
  NoVal = NoVal
  Rotation = 1
  AutoStart = TRUE
  Schedules <- LastTick
  MaxTime = 3
  MaxTick = 3
  MaxSubs = 0
  Orders = {"schedule"}
PROPERTY LastTickScored
