SPECIFICATION FairSpec
CONSTANTS
  Conns = {c1, c2}
  N = 1
  QueueLimit = 1
  LinesPerRead = 1
  MaxLines = 3
INVARIANTS NeverDeaf QueueBounded AnsweredBeforeEnd
PROPERTIES SocketsClosed SignalEnds
CHECK_DEADLOCK FALSE
