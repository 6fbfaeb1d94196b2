SPECIFICATION FairSpec
CONSTANTS
  Jobs = {j1}
  Workers = {w1, w2}
  MaxAttempts = 3
  Outcomes = {"SUCCESS"}
  MaxMsgs = 1
  None = None
INVARIANTS OneRunner AttemptsBounded
PROPERTIES TickScored ScoredWhenDone
CHECK_DEADLOCK FALSE
