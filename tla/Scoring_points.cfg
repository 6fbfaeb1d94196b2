SPECIFICATION Spec
CONSTANTS
  a = a
  b = b
  v = v
  nop = nop
  s1 = s1
  Teams = {a, b, v, nop}
  Nop = nop
  Services = {s1}
  FlagsPerTick <- Thirds
  NumPayloads <- OnePayload
  Retention = 2
  Scale = 10
  HealthChoices <- Checks
  Targets = {v}
  MaxTick = 4
INVARIANTS SlaNearAverage OffNearCaptures DefenseOfUnhackedTicks StolenCountsFlags
CHECK_DEADLOCK FALSE
