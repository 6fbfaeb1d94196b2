SPECIFICATION FairSpec
CONSTANTS
  NoSlot = NoSlot
  NoRef = NoRef
  Ticks = {1, 2}
  Slots = {s1, s2}
  NumPayloads = 2
  NumNoises = 1
  NumHavocs = 3
  Retention = 2
  BudgetTimeouts = 1
  MaxRuns = 2
  MaxFaults = 1
INVARIANTS IndexedIsKept StoredFlagIsServed StatusIsEarned
PROPERTIES RunEnds MutexIsFreed
CHECK_DEADLOCK FALSE
