SPECIFICATION FairSpec
CONSTANTS
  Conns = {c1, c2}
  Nobody = Nobody
  Backlog = 2
  MaxAsk = 1
  NetLen = 2
PROPERTY GoneIsClosed
CHECK_DEADLOCK FALSE
