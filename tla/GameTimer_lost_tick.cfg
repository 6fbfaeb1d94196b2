SPECIFICATION Spec
CONSTANTS
  Api = {a1}
  Rot = rot
  NoVal = NoVal
  Rotation = 1
  AutoStart = TRUE
  Schedules <- None
  MaxTime = 3
  MaxTick = 9
PROPERTY TickSequential
