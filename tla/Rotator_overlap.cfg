SPECIFICATION RSpec
CONSTANTS
  Api = {a1}
  Rot = rot
  NoVal = NoVal
  Rotation = 1
  AutoStart = TRUE
  Schedules <- NoSchedules
  MaxTime = 3
  MaxTick = 3
  Orders = {"start", "stop"}
  MaxSubs = 2
INVARIANTS RoundIdIsTick WindowsDisjoint PointsExact PassedIsScored
 
