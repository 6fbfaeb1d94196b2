SPECIFICATION FairSpec
CONSTANTS
  Api = {a1}
  Rot = rot
  NoVal = NoVal
  Rotation = 1
  AutoStart = TRUE
  Schedules <- TwoSchedules
  MaxTime = 3
  MaxTick = 9
INVARIANTS TypeOK RowConsistent
PROPERTIES PauseTakesEffect ScheduledStartHappens StopSettles ScheduleSettles LastTickSettles TickSettles
